---- MODULE Spec2Model ----
(***************************************************************************)
(* Model of the howdy authentication core: the Verifier (main of           *)
(* compare_optimized.py) with its frame processor, liveness detector and   *)
(* SecurityLogger, and the parts of the model daemon client the Verifier   *)
(* calls.                                                                  *)
(*                                                                         *)
(* Units: time in whole seconds; descriptor distances and spectral scores  *)
(* in hundredths (0.35 is 35); darkness in percent.                        *)
(***************************************************************************)
EXTENDS Integers, Sequences, FiniteSets, Bags, TLC

\* ------------------------------------------------------------------ bounds
MaxInvocations == 6      \* runs of main explored one after another
MaxFrames == 10          \* loop iterations explored in one run of main
RerunFrames == 2         \* the same when runs of main follow one another
MaxBad == 2              \* reads of one run that give no usable frame
MaxFaces == 2            \* faces the detector reports for one frame
MaxTime == 400           \* the clock stops advancing after this many seconds
MaxLogTime == 700        \* the same for the clock of a SecurityLogger alone
MaxCalls == 7            \* SecurityLogger calls explored on one logger object
LiveFrames == 4          \* loop iterations of a run under fair scheduling
MaxAdapt == 14           \* adapt_parameters calls on one processor
MaxRequests == 4         \* connections the Model Service accepts
MaxMtime == 2            \* modification times an enrollment file can carry
MaxPayload == 2          \* bytes of a framed payload
MaxConns == 2            \* connections followed on the wire
MaxSessClock == 22       \* half seconds a liveness detector is followed
MaxPipeFrames == 11      \* add_frame calls on one frame pipeline
MaxStops == 2            \* stop calls on one frame pipeline
MaxResponses == 6        \* responses followed in the statistics
MaxDigests == 102        \* distinct frame digests an analyzer sees
MaxCapFrames == 8        \* frames one OptimizedVideoCapture reads
MaxSamples == 9          \* eye-aspect-ratio samples of one session

\* ------------------------------------------------------- program constants
max_attempts == 5
lockout_duration == 300
timeout == 4
dark_threshold == 60
certainty_fallback == 350
video_certainty == certainty_fallback \div 10
frame_skip_interval == 2
processing_queue_maxsize == 3
input_queue_maxsize == 10
\* AdvancedLivenessDetector: eye aspect ratios in hundredths
eye_ar_threshold == 25
eye_ar_consecutive_frames == 3
\* SmartFrameAnalyzer: scores in hundredths
cache_max_size == 100
weight_sharp == 30
weight_brightness == 25
weight_contrast == 25
weight_lighting == 20
good_quality_score == 70
max_tracking_frames == 30
head_window == 5
head_variance_threshold == 10
eye_movement_threshold == 2
moire_threshold == 15
spoof_increment == 20
spoof_cap == 100
spoof_limit == 50
\* AdaptiveFrameProcessor: times in milliseconds, scales in millionths
processing_times_maxlen == 30
adapt_min_samples == 5
adapt_window == 10
slow_processing_threshold == 100
fast_processing_threshold == 30
max_skip_rate == 4
min_resolution_scale == 500000
full_resolution_scale == 1000000
\* liveness_detection.py: times in half seconds
simple_min_detection_time == 3
simple_max_detection_time == 16
advanced_min_confirmation_time == 4
advanced_max_detection_time == 20

\* ------------------------------------------------------------ input domains
Users == {"alice", "bob"}
NoUser == "-"
Workers == {1, 2}
LoggerUsers == {"alice"}               \* users of the calls on one logger
Positions == {0, 10}                  \* face centres (x; y is kept fixed)
Scores == {10, 20}                    \* spectral scores of a face region
Darkness == {30, 90, 100}             \* share of the darkest histogram bin
LoggerSteps == {100}                  \* seconds between SecurityLogger calls
IdleSteps == {100}                    \* seconds that can pass between runs
LoopSteps == {3}                      \* seconds that can pass inside a run
ProcTimes == {10, 200}
NoDist == -1                          \* "no value" for a distance
NoCode == -1                          \* main has not exited

VARIABLES
    \* environment of the Verifier
    now,               \* time.time()
    daemon_up,         \* the Model Service accepts connections and answers
    user_model_exists, \* per user: the enrollment file exists
    liveness_check,    \* config security.liveness_check
    \* the Verifier process (one run of main)
    pc, exit_code, username, invocations,
    failed_attempts,   \* SecurityLogger.failed_attempts
    journal,           \* bag of the records this process appended to
                       \* security.log (the order of the lines is not kept)
    fr,                \* timings["fr"]
    frames, valid_frames, dark_tries, black_tries,
    liveness_confirmed,
    head_positions, blink_frames,        \* LivenessDetector
    frame_counter, processing_queue, result_queue, stop_processing, worker,
    \* history variables
    enc_transport_failed, \* the get_encodings round trip of this run broke
    spoof_score,       \* passive spoof score over the matching results
    streak,            \* journaled failures of successive runs
    calls,             \* SecurityLogger calls made (SpecLogger)
    \* one call of _process_single_frame (SpecFrame)
    pf_up, pf_faces, pf_result, pf_called,
    pf_gated,          \* the match test of main on that result
    \* history of one SecurityLogger (SpecLogger)
    fail_times,        \* per user: times of the latest failures logged
    since_success,     \* per user: failures logged after the last success
    locked_ret,        \* the last is_user_locked call and what it returned
    \* AdaptiveFrameProcessor
    processing_times,          \* in milliseconds
    current_skip_rate,
    current_resolution_scale,  \* in millionths
    \* the Model Service (HowdyModelDaemon) and the enrollment files
    file_mtime,        \* per user: os.path.getmtime of the enrollment file
    file_entries,      \* per user: len(entry["data"]) of the file's entries
    encodings_cache,   \* per user: the cached entry, if any
    cache_hits, cache_misses,
    lock_holder,       \* the thread holding self.lock, 0 when it is free
    handler,           \* per handler thread: where handle_client stands
    accepted,          \* connections accepted so far
    served,            \* history: the last get_encodings response sent, what
                       \* it added to the counters, the file as it was then
    invalidated,       \* history: users invalidated and not asked for since
    replied,           \* history: the last answer to a request that is not
                       \* about the cache
    svc,               \* the service process: where run_daemon stands, the
                       \* models loaded, models_loaded, the exit code
    \* one connection after another as its receiving side sees it
    wire,              \* the bytes under way, where the receiver stands,
                       \* what it got, requests_served
    \* a detector of liveness_detection.py on its own
    sess,              \* its kind, its clock, the session start, the methods
                       \* confirmed, the last result
    \* a frame pipeline (OptimizedFrameProcessor or ParallelVideoProcessor)
    \* with its worker threads on its own
    pvp,               \* its kind, the input queue, stop_processing, where
                       \* each worker stands, the frames accepted and processed
    \* the statistics update of handle_client on its own
    stats,              \* requests_served, the responses sent, where each
                       \* handler stands in `requests_served += 1`
    \* one SmartFrameAnalyzer on its own
    qa,                 \* the cache keys, their order of use, the last result
    \* one OptimizedVideoCapture on its own
    cap,                \* its settings, its counters, its adaptive processor
    \* the blink detection of one AdvancedLivenessDetector
    blk                \* its blink counters and the episodes of its samples

envVars == <<now, daemon_up, user_model_exists, liveness_check>>
logVars == <<failed_attempts, journal>>
loopVars == <<fr, frames, valid_frames, dark_tries, black_tries,
              liveness_confirmed>>
liveVars == <<head_positions, blink_frames>>
pipeVars == <<frame_counter, processing_queue, result_queue,
              stop_processing, worker>>
histVars == <<enc_transport_failed, spoof_score, streak, calls>>
pfVars == <<pf_up, pf_faces, pf_result, pf_called, pf_gated>>
unitVars == <<pfVars, fail_times, since_success, locked_ret>>
adaptVars ==
    <<processing_times, current_skip_rate, current_resolution_scale>>
fileVars == <<file_mtime, file_entries>>
daemonVars == <<encodings_cache, cache_hits, cache_misses, lock_holder,
                handler, accepted, served, invalidated, replied, svc>>
extVars == <<wire, sess, pvp, stats, qa, cap, blk>>
compVars == <<adaptVars, fileVars, daemonVars, extVars>>

vars == <<envVars, pc, exit_code, username, invocations, logVars, loopVars,
          liveVars, pipeVars, histVars, unitVars, compVars>>

\* ---------------------------------------------------------------- helpers
Min(a, b) == IF a < b THEN a ELSE b

RECURSIVE SumSeq(_)
SumSeq(s) == IF s = <<>> THEN 0 ELSE Head(s) + SumSeq(Tail(s))

LastN(s, n) == IF Len(s) <= n THEN s ELSE SubSeq(s, Len(s) - n + 1, Len(s))

\* ---------------------------------------------------------- SecurityLogger
Absent == [present |-> FALSE, count |-> 0, last_attempt |-> 0]

\* SecurityLogger.__init__: failed_attempts = {}
SecurityLoggerInit == [u \in Users |-> Absent]

\* SecurityLogger._update_failed_attempts(username) at time t
UpdateFailedAttempts(fa, u, t) ==
    LET cur == IF fa[u].present THEN fa[u]
               ELSE [present |-> TRUE, count |-> 0, last_attempt |-> t]
    IN  IF t - cur.last_attempt > lockout_duration
        THEN [fa EXCEPT ![u] = [present |-> TRUE, count |-> 1,
                                last_attempt |-> t]]
        ELSE [fa EXCEPT ![u] = [present |-> TRUE, count |-> cur.count + 1,
                                last_attempt |-> t]]

\* SecurityLogger.is_user_locked(username) at time t: the value returned
IsUserLockedResult(fa, u, t) ==
    /\ fa[u].present
    /\ fa[u].count >= max_attempts
    /\ t - fa[u].last_attempt < lockout_duration

\* SecurityLogger.is_user_locked(username) at time t: the dictionary afterwards
IsUserLockedEffectAlwaysReset(fa, u, t) ==
    IF fa[u].present /\ fa[u].count >= max_attempts
    THEN [fa EXCEPT ![u] = Absent]
    ELSE fa

IsUserLockedEffect(fa, u, t) ==
    IF /\ fa[u].present
       /\ fa[u].count >= max_attempts
       /\ ~(t - fa[u].last_attempt < lockout_duration)
    THEN [fa EXCEPT ![u] = Absent]
    ELSE fa

\* the record log_auth_attempt writes
AuthRecord(u, success, error) ==
    [kind |-> "AUTH_ATTEMPT", user |-> u, success |-> success, error |-> error]

\* the record log_security_event writes
EventRecord(event_type) ==
    [kind |-> event_type, user |-> NoUser, success |-> FALSE, error |-> ""]

\* SecurityLogger.log_auth_attempt: the dictionary afterwards
LogAuthAttemptEffect(fa, u, success, t) ==
    IF ~success THEN UpdateFailedAttempts(fa, u, t) ELSE fa

FailCount(u) == IF failed_attempts[u].present THEN failed_attempts[u].count ELSE 0

\* ------------------------------------------------------- HowdyDaemonClient
\* HowdyModelDaemon.process_request for a request type that has no branch of
\* its own: the final else
UnknownRequest == [kind |-> "error", eye |-> 0]
NoResponse == [kind |-> "none", eye |-> 0]

\* what send_request returns for {'type': 'get_face_landmarks', ...}: the
\* daemon's answer when the round trip works, None when it raises
LandmarkAnswer(up) == IF up THEN UnknownRequest ELSE NoResponse

\* truth value Python gives the answer (None is falsy, a non-empty dict truthy)
Truthy(resp) == resp.kind # "none"

\* ------------------------------------------------------- LivenessDetector
\* detect_blink: the value returned.  An answer without part() raises inside
\* the try block and the except branch returns False.
DetectBlinkResult(bf, lm) ==
    /\ lm.kind = "landmarks"
    /\ Len(bf) > 0
    /\ (IF lm.eye >= bf[Len(bf)] THEN lm.eye - bf[Len(bf)]
        ELSE bf[Len(bf)] - lm.eye) > eye_movement_threshold

\* detect_blink: blink_frames afterwards
DetectBlinkEffect(bf, lm) ==
    IF lm.kind # "landmarks" \/ DetectBlinkResult(bf, lm) THEN bf
    ELSE LET app == Append(bf, lm.eye)
         IN  IF Len(app) > max_tracking_frames THEN Tail(app) ELSE app

\* detect_head_movement: head_positions afterwards
DetectHeadEffect(hp, pos) ==
    LET app == Append(hp, pos)
    IN  IF Len(app) > max_tracking_frames THEN Tail(app) ELSE app

\* detect_head_movement: the value returned.  np.var over the last five
\* centres is (n*sum(x^2) - sum(x)^2) / n^2; the y coordinate is constant.
DetectHeadResult(hp, pos) ==
    LET after == DetectHeadEffect(hp, pos)
        last == LastN(after, head_window)
        n == Len(last)
        sq == [i \in 1..n |-> last[i] * last[i]]
    IN  /\ Len(after) >= head_window
        /\ n * SumSeq(sq) - SumSeq(last) * SumSeq(last)
             > head_variance_threshold * n * n

\* a detector that takes every answered landmark request for a live face
IsLiveFaceAnswered(bf, hp, lm, pos) == Truthy(lm)

\* is_live_face: blink_detected or head_movement
IsLiveFace(bf, hp, lm, pos) ==
    DetectBlinkResult(bf, lm) \/ DetectHeadResult(hp, pos)

\* ------------------------------------------------------ FrequencyAnalyzer
is_spoof(score) == score > moire_threshold

\* cumulative passive score of the liveness session (spec section 4.5)
SpoofScoreNext(ss, matching, score) ==
    IF matching /\ is_spoof(score) THEN Min(spoof_cap, ss + spoof_increment)
    ELSE ss

\* ------------------------------------------------- OptimizedFrameProcessor
\* distance vectors a detected face can have to the enrolled rows
DVecs == {<<0, 50>>, <<20, 50>>, <<50, 35>>}
NoFace == [enc |-> FALSE, d |-> <<50, 50>>, pos |-> 0]
FaceSet == {NoFace} \cup [enc : {TRUE}, d : DVecs, pos : Positions]
FaceLists == UNION {[1..n -> FaceSet] : n \in 0..MaxFaces}

NoResult == [match_certainty |-> NoDist, match_index |-> 0, pos |-> 0]

\* np.linalg.norm(...) row by row, np.argmin, matches[match_index]
MinOf(d) == CHOOSE m \in {d[i] : i \in DOMAIN d} :
                \A i \in DOMAIN d : m <= d[i]
ArgMin(d) == CHOOSE i \in DOMAIN d :
                 /\ d[i] = MinOf(d)
                 /\ \A j \in DOMAIN d : d[j] = MinOf(d) => i <= j

\* _process_single_frame: the loop over face_locations
RECURSIVE ProcessFaces(_)
ProcessFaces(faces) ==
    IF faces = <<>> THEN NoResult
    ELSE IF ~Head(faces).enc THEN ProcessFaces(Tail(faces))
    ELSE [match_certainty |-> MinOf(Head(faces).d),
          match_index |-> ArgMin(Head(faces).d),
          pos |-> Head(faces).pos]

\* _process_single_frame: detect_faces returns None when the round trip
\* breaks; iterating over it raises and the except branch returns None
ProcessSingleFrame(up, faces) ==
    IF ~up THEN NoResult ELSE ProcessFaces(faces)

\* smallest nearest-enrollment distance over the faces that got an encoding
FrameBest(faces) ==
    LET ds == {MinOf(faces[i].d) : i \in {j \in DOMAIN faces : faces[j].enc}}
    IN  IF ds = {} THEN NoDist
        ELSE CHOOSE m \in ds : \A x \in ds : m <= x

\* add_frame: the queue afterwards (frame_counter is already incremented)
AddFrameQueue(q, fc) ==
    IF fc % frame_skip_interval # 0 THEN q
    ELSE IF Len(q) >= processing_queue_maxsize THEN q
    ELSE Append(q, "frame")

\* stop: one None per worker thread, each dropped when the queue is full
RECURSIVE PutSentinels(_, _)
PutSentinels(q, n) ==
    IF n = 0 THEN q
    ELSE PutSentinels(IF Len(q) >= processing_queue_maxsize THEN q
                      ELSE Append(q, "None"), n - 1)

\* ------------------------------------------------------ HowdyModelDaemon
Threads == {1, 2}
NoThread == 0

\* alice has an enrollment file, bob has none
EnrolledInit == [u \in Users |-> u = "alice"]

\* what an enrollment file can hold: len(entry["data"]) of each of its entries
EntryLists == {<<1>>, <<0, 3>>}

\* the enrollment files when the service starts
FilesInit ==
    /\ file_mtime = [u \in Users |-> IF EnrolledInit[u] THEN 1 ELSE 0]
    /\ file_entries = [u \in Users |-> IF EnrolledInit[u] THEN <<1>> ELSE <<>>]

\* encodings_cache.get(username) when the user has no entry: None
NoEntry == [present |-> FALSE, rows |-> 0, models |-> 0, last_modified |-> 0]

\* the entry load_user_encodings builds from the file (lines 118-133):
\* 'encodings' has one row per descriptor of every entry, 'models' is the
\* list of the entries
LoadedEntry(entries, mtime) ==
    [present |-> TRUE, rows |-> SumSeq(entries), models |-> Len(entries),
     last_modified |-> mtime]

IdleHandler ==
    [pc |-> "idle", type |-> "-", user |-> NoUser, hits0 |-> 0, misses0 |-> 0]

NoServed ==
    [n |-> 0, user |-> NoUser, resp |-> NoEntry, hits |-> 0, misses |-> 0,
     after_invalidate |-> FALSE,
     f_exists |-> FALSE, f_mtime |-> 0, f_entries |-> <<>>]

NoReply == [type |-> "-", raised |-> FALSE, resp |-> "-"]

\* the models preload_models loads, in this order (lines 75-94)
Models == {"face_detector", "pose_predictor", "face_encoder"}

\* how preload_models can go: all loaded, the shape predictor file missing
\* (line 71), or the load of one of the models raising
PreloadOutcomes == {"ok", "file_missing"} \cup Models

\* the models loaded when preload_models leaves its try block
LoadedBefore(outcome) ==
    CASE outcome = "ok" -> Models
      [] outcome = "face_encoder" -> {"face_detector", "pose_predictor"}
      [] outcome = "pose_predictor" -> {"face_detector"}
      [] OTHER -> {}

\* the process before run_daemon (lines 43-52): nothing loaded, no socket
ServiceConstructed ==
    [pc |-> "constructed", loaded |-> {}, models_loaded |-> FALSE,
     failed |-> "-", exit_code |-> NoCode]

\* preload_models with the except clause only printing
PreloadModelsNoExit(s, outcome) ==
    [s EXCEPT !.pc = "start_server", !.loaded = LoadedBefore(outcome),
              !.models_loaded = (outcome = "ok"),
              !.failed = IF outcome = "ok" THEN "-" ELSE outcome]

\* preload_models (lines 63-104): the process afterwards
PreloadModelsResult(s, outcome) ==
    IF outcome = "ok"
    THEN [s EXCEPT !.pc = "start_server", !.loaded = Models,
                   !.models_loaded = TRUE]
    ELSE [s EXCEPT !.pc = "exited", !.loaded = LoadedBefore(outcome),
                   !.failed = outcome, !.exit_code = 1]

\* HowdyModelDaemon.__init__ (lines 35-60)
DaemonInit ==
    /\ encodings_cache = [u \in Users |-> NoEntry]
    /\ cache_hits = 0 /\ cache_misses = 0
    /\ lock_holder = NoThread
    /\ handler = [t \in Threads |-> IdleHandler]
    /\ accepted = 0
    /\ served = NoServed
    /\ invalidated = [u \in Users |-> FALSE]
    /\ replied = NoReply
    /\ svc = ServiceConstructed

\* check_cache_validity (lines 149-165): "valid", "stale" (the file is newer:
\* the entry is invalidated first) or "invalid" (no entry, or getmtime raised)
CheckCacheValidity(cache, exists, mtime, u) ==
    IF ~cache[u].present THEN "invalid"
    ELSE IF ~exists[u] THEN "invalid"
    ELSE IF mtime[u] > cache[u].last_modified THEN "stale"
    ELSE "valid"

\* invalidate_user_cache (lines 142-147): the cache afterwards
InvalidateUserCacheClearAll(cache, u) == [v \in Users |-> NoEntry]

InvalidateUserCache(cache, u) == [cache EXCEPT ![u] = NoEntry]

\* load_user_encodings (lines 106-140): the cache afterwards
LoadCache(cache, exists, mtime, entries, u) ==
    IF cache[u].present \/ ~exists[u] THEN cache
    ELSE [cache EXCEPT ![u] = LoadedEntry(entries[u], mtime[u])]

\* load_user_encodings: what it adds to cache_hits and to cache_misses
LoadHits(cache, u) == IF cache[u].present THEN 1 ELSE 0
LoadMisses(cache, exists, u) ==
    IF ~cache[u].present /\ exists[u] THEN 1 ELSE 0

\* the first statement process_request runs for a request type (lines 277-306)
RequestTypes ==
    {"get_encodings", "invalidate_cache", "detect_faces", "get_face_encoding",
     "get_face_landmarks"}
FirstPc(type) ==
    CASE type = "get_encodings" -> "check"
      [] type = "invalidate_cache" -> "invalidate"
      [] type \in {"detect_faces", "get_face_encoding"} -> "model_call"
      [] OTHER -> "unknown"

\* what detect_faces (lines 186-202) and get_face_encoding (lines 167-184)
\* return, and with it what process_request answers: the rectangles or the
\* descriptor, and [] or None when the model call raised
ModelCallAnswer(type, raises) ==
    IF type = "detect_faces"
    THEN (IF raises THEN "empty_list" ELSE "faces")
    ELSE (IF raises THEN "null" ELSE "encoding")

\* ------------------------------------------------------ message framing
\* struct.pack('>I', n) and struct.unpack('>I', b)[0]
Pack(n) ==
    <<(n \div 16777216) % 256, (n \div 65536) % 256, (n \div 256) % 256,
      n % 256>>
Unpack(b) == ((b[1] * 256 + b[2]) * 256 + b[3]) * 256 + b[4]

\* payloads sent, bytes that may follow a frame on the same connection
Payloads == UNION {[1..n -> {7, 9}] : n \in 0..MaxPayload}
Trailing == {<<>>, <<5>>}
NoCut == -1                          \* the peer does not close

\* what the peer puts on the connection before it closes it after `cut`
\* bytes, or leaves it open: sendall(prefix), sendall(payload)
\* (lines 246-248, 356-358)
WireStream(payload, trailing, cut) ==
    LET full == Pack(Len(payload)) \o payload \o trailing
    IN  IF cut = NoCut THEN full ELSE SubSeq(full, 1, Min(cut, Len(full)))

\* value of recvall: None, or the bytes
None == [none |-> TRUE, bytes |-> <<>>]
Bytes(b) == [none |-> FALSE, bytes |-> b]

\* pickle.loads raises on None and on an empty payload (line 242)
Unpicklable(r) == r.none \/ r.bytes = <<>>

\* recvall asking for all n bytes at every recv
RecvWantAll(n, data) == n

\* recvall: what it asks of one recv (line 269)
RecvWant(n, data) == n - Len(data)

\* handle_client counting in its finally clause
ServedAfterAlways(served_n, r) == served_n + 1

\* handle_client: requests_served after the connection (lines 241-254)
ServedAfter(served_n, r) == IF Unpicklable(r) THEN served_n ELSE served_n + 1

\* no connection yet
NoWire ==
    [role |-> "-", pc |-> "closed", payload |-> <<>>, stream |-> <<>>,
     eof |-> FALSE, sent |-> 0, n |-> 0, data |-> <<>>, consumed |-> 0,
     got |-> None, responded |-> FALSE, returned |-> "-",
     requests_served |-> 0, conns |-> 0]

\* the receiver once the payload recvall has returned r: handle_client
\* answers and counts, or prints the exception, and closes the connection
\* (lines 241-263); send_request returns the response or None (lines 365-373)
AfterPayload(w, r) ==
    [w EXCEPT !.pc = "closed", !.got = r,
              !.responded = (w.role = "server" /\ ~Unpicklable(r)),
              !.returned = IF w.role = "server" THEN "-"
                           ELSE IF Unpicklable(r) THEN "None" ELSE "response",
              !.requests_served =
                  IF w.role = "server" THEN ServedAfter(@, r) ELSE @]

\* the receiver once the prefix recvall has returned r (lines 235-241,
\* 361-365): None ends the connection, a length of 0 makes the payload
\* recvall return at once
AfterPrefix(w, r) ==
    IF r.none
    THEN [w EXCEPT !.pc = "closed", !.got = None,
                   !.returned = IF w.role = "server" THEN "-" ELSE "None"]
    ELSE IF Unpack(r.bytes) = 0 THEN AfterPayload(w, Bytes(<<>>))
    ELSE [w EXCEPT !.pc = "payload", !.n = Unpack(r.bytes), !.data = <<>>]

\* the receiver once recvall has returned r
AfterRecvAll(w, r) ==
    IF w.pc = "prefix" THEN AfterPrefix(w, r) ELSE AfterPayload(w, r)

\* ------------------------------------- the statistics of the service
\* stats['requests_served'] = 0 (line 56), no handler running
NoStats ==
    [requests_served |-> 0, responded |-> 0,
     spc |-> [t \in Threads |-> "idle"], tmp |-> [t \in Threads |-> 0]]

\* ------------------------------------------------- SmartFrameAnalyzer
\* the four checks of a frame: is_sharp, is_bright_enough,
\* has_good_contrast, has_even_lighting (lines 310-334)
Checks == [sharp : BOOLEAN, bright : BOOLEAN, contrast : BOOLEAN,
           even : BOOLEAN]

\* quality_score (lines 336-342)
QualityScore(c) ==
    (IF c.sharp THEN weight_sharp ELSE 0)
    + (IF c.bright THEN weight_brightness ELSE 0)
    + (IF c.contrast THEN weight_contrast ELSE 0)
    + (IF c.even THEN weight_lighting ELSE 0)

\* is_good_quality (line 354)
IsGoodQuality(c) == QualityScore(c) > good_quality_score

\* _cache_result (lines 376-383): the keys of analysis_cache afterwards, in
\* the order the dict iterates them
CacheResult(cache, key) ==
    Append(IF Len(cache) >= cache_max_size THEN Tail(cache) ELSE cache, key)

\* the keys in order of their last use, key being used now
Touch(recency, key) ==
    LET Other(k) == k # key IN Append(SelectSeq(recency, Other), key)

\* SmartFrameAnalyzer.__init__ (lines 280-294); digest 0 stands for none
NoAnalyzer ==
    [cache |-> <<>>, recency |-> <<>>, digests |-> 0, evicted |-> 0,
     lru |-> 0, computed |-> FALSE,
     checks |-> [sharp |-> FALSE, bright |-> FALSE, contrast |-> FALSE,
                 even |-> FALSE],
     is_good_quality |-> FALSE]

\* ------------------------------------------------- the frame pipelines
\* put on a queue.Queue that has no maxsize: the item is always taken
QueuePutBlocking(q, item, maxsize) == Append(q, item)

\* queue.Queue.put(item, block=False) with queue.Full caught: the queue
\* afterwards (compare_optimized.py lines 228-232, 246-250;
\* optimized_video_processor.py lines 243-247, 261-265)
QueuePut(q, item, maxsize) ==
    IF Len(q) >= maxsize THEN q ELSE Append(q, item)

\* the None that stop puts for a worker; frames are numbered from 1
Sentinel == 0

\* maxsize of the input queue and every how many frames add_frame takes one
MaxSize(kind) ==
    IF kind = "optimized" THEN processing_queue_maxsize
    ELSE input_queue_maxsize
SkipInterval(kind) == IF kind = "optimized" THEN frame_skip_interval ELSE 1

\* stop: one None per worker, put without blocking
RECURSIVE StopQueue(_, _, _)
StopQueue(q, n, maxsize) ==
    IF n = 0 THEN q
    ELSE StopQueue(QueuePut(q, Sentinel, maxsize), n - 1, maxsize)

\* a worker loop that only a sentinel ends
WorkerLoopForever(stop) == TRUE

\* the loop test of a worker: `while not self.stop_processing.is_set()`
WorkerLoopRuns(stop) == ~stop

\* no pipeline created yet
NoPipeline ==
    [kind |-> "-", input_queue |-> <<>>, frame_counter |-> 0,
     add_ret |-> FALSE, stop_processing |-> FALSE, stops |-> 0,
     wpc |-> [w \in Workers |-> "none"],
     exit_by |-> [w \in Workers |-> "-"],
     accepted |-> {}, processed |-> {}]

\* ------------------------------- the detectors of liveness_detection.py
\* the methods whose flags a detector keeps: blink_detected and
\* movement_detected (lines 384-385), and the four *_confirmed flags
\* (lines 55-58)
SimpleMethods == {"blink", "movement"}
Methods == SimpleMethods \cup {"texture", "depth"}
NoTime == -1                         \* detection_start / start_time is None

\* no detector created yet
NoSession ==
    [kind |-> "-", clock |-> 0, start |-> NoTime, confirmed |-> {},
     called |-> FALSE, ret |-> FALSE, late |-> FALSE, prior_accept |-> FALSE]

\* process_frame_simple: its return value (lines 431-441)
SimpleDecision(elapsed, confirmed) ==
    IF elapsed >= simple_min_detection_time /\ confirmed # {} THEN TRUE
    ELSE IF elapsed >= simple_max_detection_time THEN confirmed # {}
    ELSE FALSE

\* get_final_decision (lines 301-323)
GetFinalDecision(elapsed, confirmed) ==
    IF Cardinality(confirmed) >= 2 THEN TRUE
    ELSE IF /\ Cardinality(confirmed) >= 1
            /\ 2 * elapsed >= 3 * advanced_min_confirmation_time THEN TRUE
    ELSE IF elapsed >= advanced_max_detection_time
    THEN Cardinality(confirmed) >= 1
    ELSE FALSE

\* process_frame: the flags afterwards; past the timeout the detection
\* methods are not run (lines 286-294)
AdvancedConfirmed(elapsed, confirmed, evidence) ==
    IF elapsed > advanced_max_detection_time THEN confirmed
    ELSE confirmed \cup evidence

\* a process_frame that rejects every frame past the timeout
AdvancedDecisionTimeoutFails(elapsed, confirmed, evidence) ==
    IF elapsed > advanced_max_detection_time THEN FALSE
    ELSE IF elapsed >= advanced_min_confirmation_time
    THEN GetFinalDecision(elapsed, confirmed \cup evidence)
    ELSE FALSE

\* process_frame: its return value (lines 286-299)
AdvancedDecision(elapsed, confirmed, evidence) ==
    IF elapsed > advanced_max_detection_time
    THEN GetFinalDecision(elapsed, confirmed)
    ELSE IF elapsed >= advanced_min_confirmation_time
    THEN GetFinalDecision(elapsed, confirmed \cup evidence)
    ELSE FALSE

\* ------------------------------- AdvancedLivenessDetector: the blinks
\* eye aspect ratios of a frame: below, at and above the threshold
EarSamples == {20, 25, 30}

\* AdvancedLivenessDetector.__init__ (lines 22-25, 42); run and episodes
\* follow the samples themselves: the length of the run below the threshold
\* that the last sample ends or extends, and the runs of at least three
\* samples that a sample at or above the threshold has ended
NoBlinks ==
    [blink_counter |-> 0, total_blinks |-> 0, blink_confirmed |-> FALSE,
     ret |-> FALSE, samples |-> 0, run |-> 0, episodes |-> 0]

\* detect_blink_advanced: blink_counter afterwards (lines 128-140); the
\* return of line 138 comes before the reset of line 140
BlinkCounterAfter(blink_counter, total_blinks, ear) ==
    IF ear < eye_ar_threshold
    THEN blink_counter + 1
    ELSE IF blink_counter >= eye_ar_consecutive_frames
            /\ total_blinks + 1 >= 1
         THEN blink_counter
         ELSE 0

\* detect_blink_advanced: total_blinks afterwards (lines 130-132)
TotalBlinksAfter(blink_counter, total_blinks, ear) ==
    IF ear >= eye_ar_threshold
       /\ blink_counter >= eye_ar_consecutive_frames
    THEN total_blinks + 1
    ELSE total_blinks

\* ------------------------------------------------ AdaptiveFrameProcessor
\* AdaptiveFrameProcessor.__init__ (lines 63-65)
AdaptiveInit ==
    /\ processing_times = <<>>
    /\ current_skip_rate = 1
    /\ current_resolution_scale = full_resolution_scale

\* current_resolution_scale *= 0.8 and min(1.0, scale * 1.1), rounded down
\* to a millionth
ScaleDown(scale) == (scale * 8) \div 10
ScaleUp(scale) == Min(full_resolution_scale, (scale * 11) \div 10)

\* avg_time of the last adapt_window samples against the two thresholds
AvgSlow(times) ==
    LET w == LastN(times, adapt_window)
    IN  SumSeq(w) > slow_processing_threshold * Len(w)
AvgFast(times) ==
    LET w == LastN(times, adapt_window)
    IN  SumSeq(w) < fast_processing_threshold * Len(w)

\* adapt_parameters: the skip rate afterwards (lines 90-103)
AdaptSkipRate(skip, times) ==
    IF AvgSlow(times)
    THEN IF skip < max_skip_rate THEN skip + 1 ELSE skip
    ELSE IF AvgFast(times)
    THEN IF skip > 1 THEN skip - 1 ELSE skip
    ELSE skip

\* adapt_parameters: the resolution scale afterwards (lines 90-106)
AdaptScale(skip, scale, times) ==
    IF AvgSlow(times)
    THEN IF skip < max_skip_rate THEN scale
         ELSE IF scale > min_resolution_scale THEN ScaleDown(scale)
         ELSE scale
    ELSE IF AvgFast(times)
    THEN IF skip > 1 THEN scale
         ELSE IF scale < full_resolution_scale THEN ScaleUp(scale)
         ELSE scale
    ELSE scale

\* ----------------------------------------------- OptimizedVideoCapture
\* OptimizedVideoCapture.__init__ (lines 411-435) with the
\* AdaptiveFrameProcessor it owns (lines 63-73)
NoCapture ==
    [created |-> FALSE, enable_quality_filtering |-> FALSE,
     enable_adaptive_processing |-> FALSE, frame_counter |-> 0,
     capture_stats |-> [total_frames_captured |-> 0, frames_processed |-> 0,
                        frames_skipped_quality |-> 0,
                        frames_skipped_adaptive |-> 0],
     frames_skipped |-> 0, current_skip_rate |-> 1,
     current_resolution_scale |-> full_resolution_scale,
     processing_times |-> <<>>, read_ok |-> FALSE, ret |-> "-"]

\* should_process_frame: the value returned (lines 113-116)
ShouldProcessFrame(frame_number, skip) == frame_number % skip = 0

\* a skipped frame that the adaptive processor does not count
SkipAdaptiveUncounted(c) ==
    [c EXCEPT !.capture_stats.frames_skipped_adaptive = @ + 1,
              !.ret = "none"]

\* a frame the adaptive processor skips (lines 117-119, 452-455)
SkipAdaptive(c) ==
    [c EXCEPT !.frames_skipped = @ + 1,
              !.capture_stats.frames_skipped_adaptive = @ + 1,
              !.ret = "none"]

\* a frame the quality filter rejects (lines 462-464)
SkipQuality(c) ==
    [c EXCEPT !.capture_stats.frames_skipped_quality = @ + 1,
              !.ret = "none"]

\* a frame that is returned (lines 466-492); adapt_parameters as in
\* AdaptParameters
ProcessCaptured(c, capture_time) ==
    LET times == LastN(Append(c.processing_times, capture_time),
                       processing_times_maxlen)
        adapt == c.enable_adaptive_processing
                     /\ Len(times) >= adapt_min_samples
    IN  [c EXCEPT !.capture_stats.frames_processed = @ + 1,
                  !.processing_times =
                      IF c.enable_adaptive_processing THEN times ELSE @,
                  !.current_skip_rate =
                      IF adapt THEN AdaptSkipRate(@, times) ELSE @,
                  !.current_resolution_scale =
                      IF adapt
                      THEN AdaptScale(c.current_skip_rate, @, times)
                      ELSE @,
                  !.ret = "frame"]

\* ------------------------------------------------------------------- Init
NoCall == [called |-> FALSE, user |-> NoUser, value |-> FALSE, at |-> 0]

NoStreak == [user |-> NoUser, n |-> 0, first |-> 0, last |-> 0, due |-> FALSE]

\* process-local state of a run of main that has not started yet
FreshProcess ==
    /\ exit_code = NoCode
    /\ failed_attempts = SecurityLoggerInit
    /\ journal = EmptyBag
    /\ fr = 0 /\ frames = 0 /\ valid_frames = 0
    /\ dark_tries = 0 /\ black_tries = 0
    /\ liveness_confirmed = FALSE
    /\ head_positions = <<>> /\ blink_frames = <<>>
    /\ frame_counter = 0 /\ processing_queue = <<>> /\ result_queue = <<>>
    /\ stop_processing = FALSE
    /\ worker = [w \in Workers |-> "none"]
    /\ enc_transport_failed = FALSE /\ spoof_score = 0

Init ==
    /\ now = 0
    /\ daemon_up \in BOOLEAN
    /\ user_model_exists = EnrolledInit
    /\ liveness_check \in BOOLEAN
    /\ pc = "start"
    /\ username = NoUser
    /\ invocations = 0
    /\ streak = NoStreak
    /\ calls = 0
    /\ FreshProcess
    /\ pf_up = FALSE /\ pf_faces = <<>> /\ pf_result = NoResult
    /\ pf_called = FALSE /\ pf_gated = "none"
    /\ fail_times = [u \in Users |-> <<>>]
    /\ since_success = [u \in Users |-> 0]
    /\ locked_ret = NoCall
    /\ AdaptiveInit
    /\ FilesInit
    /\ DaemonInit
    /\ wire = NoWire
    /\ sess = NoSession
    /\ pvp = NoPipeline
    /\ stats = NoStats
    /\ qa = NoAnalyzer
    /\ cap = NoCapture
    /\ blk = NoBlinks

\* --------------------------------------------------------- exit_handler
\* exit_handler(code): frame_processor.stop() when the processor exists,
\* then sys.exit(code)
ExitHandler(code) ==
    /\ exit_code' = code
    /\ pc' = "done"
    /\ IF pc \in {"loop_top", "read", "get_result"}
       THEN /\ stop_processing' = TRUE
            /\ processing_queue' = PutSentinels(processing_queue,
                                                Cardinality(Workers))
       ELSE UNCHANGED <<stop_processing, processing_queue>>

\* history of the journaled failures of successive runs: a failure that
\* comes within lockout_duration of the first one of the streak extends it
StreakFail(u, t) ==
    IF streak.n > 0 /\ streak.user = u /\ t - streak.first < lockout_duration
    THEN [streak EXCEPT !.n = @ + 1, !.last = t]
    ELSE [user |-> u, n |-> 1, first |-> t, last |-> t, due |-> streak.due]

LoopPcs == {"loop_top", "read", "get_result"}

\* ------------------------------------------------------------------- main
\* a new process runs main(): argument check (lines 396-399)
Invoke(u, limit) ==
    /\ pc \in {"start", "done"}
    /\ invocations < limit
    /\ invocations' = invocations + 1
    /\ username' = u
    /\ failed_attempts' = SecurityLoggerInit
    /\ journal' = EmptyBag
    /\ fr' = 0 /\ frames' = 0 /\ valid_frames' = 0
    /\ dark_tries' = 0 /\ black_tries' = 0
    /\ liveness_confirmed' = FALSE
    /\ head_positions' = <<>> /\ blink_frames' = <<>>
    /\ frame_counter' = 0 /\ processing_queue' = <<>> /\ result_queue' = <<>>
    /\ stop_processing' = FALSE
    /\ worker' = [w \in Workers |-> "none"]
    /\ enc_transport_failed' = FALSE /\ spoof_score' = 0
    /\ IF u = NoUser
       THEN /\ pc' = "done" /\ exit_code' = 12
            /\ streak' = NoStreak
       ELSE /\ pc' = "ping" /\ exit_code' = NoCode
            /\ streak' = [streak EXCEPT !.due =
                             /\ streak.user = u
                             /\ streak.n >= max_attempts
                             /\ now - streak.last < lockout_duration]
    /\ UNCHANGED <<compVars, envVars, calls, unitVars>>

\* is_daemon_running() (lines 402-408), then config and SecurityLogger(config)
Ping ==
    /\ pc = "ping"
    /\ IF daemon_up
       THEN /\ pc' = "lockcheck"
            /\ failed_attempts' = SecurityLoggerInit
            /\ UNCHANGED <<exit_code, stop_processing, processing_queue,
                           streak>>
       ELSE /\ ExitHandler(1)
            /\ streak' = [NoStreak EXCEPT !.due = streak.due]
            /\ UNCHANGED failed_attempts
    /\ UNCHANGED <<compVars, envVars, username, invocations, journal, loopVars,
                   liveVars, frame_counter, result_queue, worker,
                   enc_transport_failed, spoof_score, calls,
                   unitVars>>

\* the lockout check (lines 417-425)
CheckLocked ==
    /\ pc = "lockcheck"
    /\ failed_attempts' = IsUserLockedEffect(failed_attempts, username, now)
    /\ IF IsUserLockedResult(failed_attempts, username, now)
       THEN /\ journal' = journal (+) SetToBag({EventRecord("USER_LOCKED")})
            /\ ExitHandler(15)
            /\ streak' = [NoStreak EXCEPT !.due = streak.due]
       ELSE /\ pc' = "get_enc"
            /\ UNCHANGED <<journal, exit_code, stop_processing,
                           processing_queue, streak>>
    /\ UNCHANGED <<compVars, envVars, username, invocations, loopVars,
                   liveVars, frame_counter, result_queue, worker,
                   enc_transport_failed, spoof_score, calls,
                   unitVars>>

\* get_user_encodings (lines 427-434): send_request gives the daemon's answer
\* (None without an enrollment) or None when the round trip raises
GetEncodings ==
    /\ pc = "get_enc"
    /\ enc_transport_failed' = ~daemon_up
    /\ IF ~(daemon_up /\ user_model_exists[username])
       THEN /\ journal' = journal (+) SetToBag(
                               {AuthRecord(username, FALSE, "no_face_model")})
            /\ failed_attempts' =
                   LogAuthAttemptEffect(failed_attempts, username, FALSE, now)
            /\ streak' = StreakFail(username, now)
            /\ ExitHandler(10)
       ELSE /\ pc' = "camera"
            /\ UNCHANGED <<journal, failed_attempts, exit_code, streak,
                           stop_processing, processing_queue>>
    /\ UNCHANGED <<compVars, envVars, username, invocations, loopVars,
                   liveVars, frame_counter, result_queue, worker,
                   spoof_score, calls, unitVars>>

\* VideoCapture(config) and the set-up of the loop (lines 466-504)
OpenCamera(ok) ==
    /\ pc = "camera"
    /\ IF ok
       THEN /\ worker' = [w \in Workers |-> "running"]
            /\ fr' = now
            /\ pc' = "loop_top"
            /\ UNCHANGED <<journal, exit_code, stop_processing,
                           processing_queue, streak>>
       ELSE /\ journal' = journal (+) SetToBag({EventRecord("CAMERA_ERROR")})
            /\ ExitHandler(14)
            /\ streak' = [NoStreak EXCEPT !.due = streak.due]
            /\ UNCHANGED <<worker, fr>>
    /\ UNCHANGED <<compVars, envVars, username, invocations, failed_attempts,
                   frames, valid_frames, dark_tries, black_tries,
                   liveness_confirmed,
                   liveVars, frame_counter, result_queue,
                   enc_transport_failed, spoof_score, calls,
                   unitVars>>

\* a timeout with only dark frames counted reports 13, else 11 (lines 520-524)
TimeoutCodeAnyDark(dark, valid) == IF dark > 0 THEN 13 ELSE 11

TimeoutCode(dark, valid) == IF dark = valid THEN 13 ELSE 11

\* the deadline test at the top of the loop (line 510)
TimedOutSwapped(t, start) == start - t > timeout

TimedOut(t, start) == t - start > timeout

\* top of the while loop: frames += 1 and the timeout check (lines 506-530)
LoopTop(budget) ==
    /\ pc = "loop_top"
    /\ frames < budget \/ TimedOut(now, fr)
    /\ frames' = frames + 1
    /\ IF TimedOut(now, fr)
       THEN /\ journal' = journal (+) SetToBag(
                               {AuthRecord(username, FALSE, "timeout")})
            /\ failed_attempts' =
                   LogAuthAttemptEffect(failed_attempts, username, FALSE, now)
            /\ streak' = StreakFail(username, now)
            /\ ExitHandler(TimeoutCode(dark_tries, valid_frames))
       ELSE /\ pc' = "read"
            /\ UNCHANGED <<journal, failed_attempts, exit_code, streak,
                           stop_processing, processing_queue>>
    /\ UNCHANGED <<compVars, envVars, username, invocations, fr, valid_frames,
                   dark_tries, black_tries,
                   liveness_confirmed, liveVars,
                   frame_counter, result_queue, worker,
                   enc_transport_failed, spoof_score, calls,
                   unitVars>>

ReadOutcomes == {"raise", "empty", "frame"}

\* read_frame, the darkness analysis and add_frame (lines 532-571)
ReadFrame(outcome, darkness) ==
    /\ pc = "read"
    /\ outcome # "frame" => darkness = 100
    /\ (outcome # "frame" \/ darkness > dark_threshold)
           => frames - frame_counter <= MaxBad
    /\ IF outcome = "raise"
       THEN /\ pc' = "loop_top"
            /\ UNCHANGED <<valid_frames, dark_tries, black_tries,
                           frame_counter, processing_queue>>
       ELSE IF outcome = "empty" \/ darkness = 100
       THEN /\ black_tries' = black_tries + 1
            /\ pc' = "loop_top"
            /\ UNCHANGED <<valid_frames, dark_tries, frame_counter,
                           processing_queue>>
       ELSE IF darkness > dark_threshold
       THEN /\ valid_frames' = valid_frames + 1
            /\ dark_tries' = dark_tries + 1
            /\ pc' = "loop_top"
            /\ UNCHANGED <<black_tries, frame_counter, processing_queue>>
       ELSE /\ valid_frames' = valid_frames + 1
            /\ frame_counter' = frame_counter + 1
            /\ processing_queue' =
                   AddFrameQueue(processing_queue, frame_counter + 1)
            /\ pc' = "get_result"
            /\ UNCHANGED <<dark_tries, black_tries>>
    /\ UNCHANGED <<compVars, envVars, exit_code, username, invocations, logVars,
                   fr, frames, liveness_confirmed,
                   liveVars, result_queue, stop_processing,
                   worker, histVars, unitVars>>

\* the match test of main (line 583)
Matching(d) == 0 < d /\ d < video_certainty

\* get_result and the handling of the result (lines 573-641); score is the
\* spectral score of the face region of the frame the result carries
GetResult(score) ==
    /\ pc = "get_result"
    /\ IF result_queue = <<>>
       THEN /\ pc' = "loop_top"
            /\ UNCHANGED <<result_queue,
                           liveness_confirmed, liveVars, journal, exit_code,
                           stop_processing, processing_queue,
                           spoof_score, streak>>
       ELSE LET result == Head(result_queue)
                d == result.match_certainty
                lm == LandmarkAnswer(daemon_up)
                asked == liveness_check /\ Truthy(lm) /\ ~liveness_confirmed
                is_live == IsLiveFace(blink_frames, head_positions, lm,
                                      result.pos)
            IN  /\ result_queue' = Tail(result_queue)
                /\ spoof_score' = SpoofScoreNext(spoof_score, Matching(d),
                                                 score)
                /\ IF Matching(d) /\ asked
                   THEN /\ blink_frames' = DetectBlinkEffect(blink_frames, lm)
                        /\ head_positions' =
                               DetectHeadEffect(head_positions, result.pos)
                        /\ liveness_confirmed' = is_live
                   ELSE UNCHANGED <<liveVars, liveness_confirmed>>
                /\ IF Matching(d) /\ (asked => is_live)
                   THEN /\ journal' = journal (+) SetToBag(
                                           {AuthRecord(username, TRUE, "")})
                        /\ streak' = [NoStreak EXCEPT !.due = streak.due]
                        /\ ExitHandler(0)
                   ELSE /\ pc' = "loop_top"
                        /\ UNCHANGED <<journal, exit_code, stop_processing,
                                       processing_queue, streak>>
    /\ UNCHANGED <<compVars, envVars, username, invocations, failed_attempts,
                   fr, frames, valid_frames, dark_tries, black_tries,
                   frame_counter, worker, enc_transport_failed, calls,
                   unitVars>>

\* what _process_single_frame can return, over the faces the detector and
\* the encoder can give for a frame
FrameResultsUp == {ProcessSingleFrame(TRUE, faces) : faces \in FaceLists}
FrameResultsDown == {ProcessSingleFrame(FALSE, faces) : faces \in FaceLists}
FrameResults(up) == IF up THEN FrameResultsUp ELSE FrameResultsDown

\* one pass of _worker (lines 171-186) by worker thread w; result is what
\* _process_single_frame returns for the frame taken from the queue
WorkerPass(w, result) ==
    /\ worker[w] = "running"
    /\ stop_processing \/ processing_queue # <<>>
    /\ IF stop_processing
       THEN /\ worker' = [worker EXCEPT ![w] = "exited"]
            /\ UNCHANGED <<processing_queue, result_queue>>
       ELSE IF Head(processing_queue) = "None"
       THEN /\ worker' = [worker EXCEPT ![w] = "exited"]
            /\ processing_queue' = Tail(processing_queue)
            /\ UNCHANGED result_queue
       ELSE /\ processing_queue' = Tail(processing_queue)
            /\ result_queue' = IF result = NoResult THEN result_queue
                               ELSE Append(result_queue, result)
            /\ UNCHANGED worker

\* a worker thread of the running Verifier
WorkerStep(w, result) ==
    /\ pc \in LoopPcs
    /\ WorkerPass(w, result)
    /\ UNCHANGED <<compVars, envVars, pc, exit_code, username, invocations, logVars,
                   loopVars, liveVars, frame_counter, stop_processing,
                   enc_transport_failed, spoof_score, streak, calls,
                   unitVars>>

\* ------------------------------------------------------------ environment
\* time passes while the loop runs; main reads the clock at the loop top
LoopTick(dt) ==
    /\ pc = "loop_top"
    /\ now - fr <= timeout
    /\ now + dt <= MaxTime
    /\ now' = now + dt
    /\ UNCHANGED <<compVars, daemon_up, user_model_exists, liveness_check, pc,
                   exit_code, username, invocations, logVars, loopVars,
                   liveVars, pipeVars, histVars, unitVars>>

\* time passes between two runs of main
IdleTick(dt) ==
    /\ pc = "done"
    /\ now + dt <= MaxTime
    /\ now' = now + dt
    /\ UNCHANGED <<compVars, daemon_up, user_model_exists, liveness_check, pc,
                   exit_code, username, invocations, logVars, loopVars,
                   liveVars, pipeVars, histVars, unitVars>>

\* the Model Service stops answering, or is started
DaemonFlip ==
    /\ pc \notin {"start", "done"}
    /\ daemon_up' = ~daemon_up
    /\ UNCHANGED <<compVars, now, user_model_exists, liveness_check, pc,
                   exit_code, username, invocations, logVars, loopVars,
                   liveVars, pipeVars, histVars, unitVars>>

\* ---------------------------------------------------------- specifications
\* one run of main
Next ==
    \/ \E u \in Users \cup {NoUser} : Invoke(u, 1)
    \/ Ping
    \/ CheckLocked
    \/ GetEncodings
    \/ \E ok \in BOOLEAN : OpenCamera(ok)
    \/ LoopTop(MaxFrames)
    \/ \E o \in ReadOutcomes, dk \in Darkness : ReadFrame(o, dk)
    \/ \E sc \in Scores : GetResult(sc)
    \/ \E w \in Workers, r \in FrameResults(daemon_up) : WorkerStep(w, r)
    \/ \E dt \in LoopSteps : LoopTick(dt)
    \/ DaemonFlip

Spec == Init /\ [][Next]_vars

\* a run of main with the liveness check enabled against a Model Service
\* that answers every request of the run
NextAnswered ==
    \/ \E u \in Users \cup {NoUser} : Invoke(u, 1)
    \/ Ping
    \/ CheckLocked
    \/ GetEncodings
    \/ \E ok \in BOOLEAN : OpenCamera(ok)
    \/ LoopTop(MaxFrames)
    \/ \E o \in ReadOutcomes, dk \in Darkness : ReadFrame(o, dk)
    \/ \E sc \in Scores : GetResult(sc)
    \/ \E w \in Workers, r \in FrameResults(daemon_up) : WorkerStep(w, r)
    \/ \E dt \in LoopSteps : LoopTick(dt)

InitAnswered == Init /\ daemon_up /\ liveness_check

SpecAnswered == InitAnswered /\ [][NextAnswered]_vars

\* runs of main one after another, as the host framework starts them; a run
\* is short against the lockout window, so the clock moves between runs only
NextRuns ==
    \/ \E u \in Users : Invoke(u, MaxInvocations)
    \/ Ping
    \/ CheckLocked
    \/ GetEncodings
    \/ \E ok \in BOOLEAN : OpenCamera(ok)
    \/ LoopTop(RerunFrames)
    \/ \E o \in ReadOutcomes, dk \in Darkness : ReadFrame(o, dk)
    \/ \E sc \in Scores : GetResult(sc)
    \/ \E w \in Workers, r \in FrameResults(daemon_up) : WorkerStep(w, r)
    \/ \E dt \in IdleSteps : IdleTick(dt)
    \/ DaemonFlip

SpecRuns == Init /\ [][NextRuns]_vars

\* one run of main under fair scheduling: the main thread is scheduled again
\* and again, and the wall clock goes on while the loop runs
NextLive ==
    \/ \E u \in Users \cup {NoUser} : Invoke(u, 1)
    \/ Ping
    \/ CheckLocked
    \/ GetEncodings
    \/ \E ok \in BOOLEAN : OpenCamera(ok)
    \/ LoopTop(LiveFrames)
    \/ \E o \in ReadOutcomes, dk \in Darkness : ReadFrame(o, dk)
    \/ \E sc \in Scores : GetResult(sc)
    \/ \E w \in Workers, r \in FrameResults(daemon_up) : WorkerStep(w, r)
    \/ \E dt \in LoopSteps : LoopTick(dt)
    \/ DaemonFlip

MainThread ==
    \/ Ping
    \/ CheckLocked
    \/ GetEncodings
    \/ \E ok \in BOOLEAN : OpenCamera(ok)
    \/ LoopTop(LiveFrames)
    \/ \E o \in ReadOutcomes, dk \in Darkness : ReadFrame(o, dk)
    \/ \E sc \in Scores : GetResult(sc)

WallClock == \E dt \in LoopSteps : LoopTick(dt)

SpecLive ==
    /\ Init
    /\ [][NextLive]_vars
    /\ WF_vars(MainThread)
    /\ WF_vars(WallClock)

\* ------------------------------------------- one SecurityLogger on its own
\* log_auth_attempt(username, success) (lines 266-294)
LogAuthAttempt(u, success) ==
    /\ calls < MaxCalls
    /\ calls' = calls + 1
    /\ journal' = journal (+) SetToBag({AuthRecord(u, success, "")})
    /\ failed_attempts' = LogAuthAttemptEffect(failed_attempts, u, success, now)
    /\ fail_times' = IF success THEN fail_times
                     ELSE [fail_times EXCEPT
                              ![u] = LastN(Append(@, now), max_attempts)]
    /\ since_success' = [since_success EXCEPT
                            ![u] = IF success THEN 0 ELSE @ + 1]
    /\ locked_ret' = NoCall
    /\ UNCHANGED <<compVars, envVars, pc, exit_code, username, invocations, loopVars,
                   liveVars, pipeVars, enc_transport_failed,
                   spoof_score, streak, pfVars>>

\* is_user_locked(username) (lines 310-327)
IsUserLocked(u) ==
    /\ calls < MaxCalls
    /\ calls' = calls + 1
    /\ locked_ret' = [called |-> TRUE, user |-> u,
                      value |-> IsUserLockedResult(failed_attempts, u, now),
                      at |-> now]
    /\ failed_attempts' = IsUserLockedEffect(failed_attempts, u, now)
    /\ UNCHANGED <<compVars, envVars, pc, exit_code, username, invocations, journal,
                   loopVars, liveVars, pipeVars, enc_transport_failed,
                   spoof_score, streak, pfVars, fail_times, since_success>>

\* log_security_event(event_type, ...) (lines 329-346)
LogSecurityEvent(event_type) ==
    /\ calls < MaxCalls
    /\ calls' = calls + 1
    /\ journal' = journal (+) SetToBag({EventRecord(event_type)})
    /\ UNCHANGED <<compVars, envVars, pc, exit_code, username, invocations,
                   failed_attempts, loopVars, liveVars, pipeVars,
                   enc_transport_failed, spoof_score, streak, unitVars>>

\* time passes between two calls
LoggerTick(dt) ==
    /\ now + dt <= MaxLogTime
    /\ now' = now + dt
    /\ UNCHANGED <<compVars, daemon_up, user_model_exists, liveness_check, pc,
                   exit_code, username, invocations, logVars, loopVars,
                   liveVars, pipeVars, histVars, unitVars>>

NextLogger ==
    \/ \E u \in LoggerUsers, success \in BOOLEAN : LogAuthAttempt(u, success)
    \/ \E u \in LoggerUsers : IsUserLocked(u)
    \/ \E e \in {"USER_LOCKED", "CAMERA_ERROR"} : LogSecurityEvent(e)
    \/ \E dt \in LoggerSteps : LoggerTick(dt)

\* the logger does not depend on the service or on the liveness setting
InitLogger == Init /\ ~daemon_up /\ liveness_check

SpecLogger == InitLogger /\ [][NextLogger]_vars

\* ------------------- the lockout check of main against a used SecurityLogger
\* main comes to its lockout check (line 417) for user u; the logger it asks
\* is in a state that earlier attempts logged on the same object left
ReachLockoutCheck(u) ==
    /\ pc = "start"
    /\ pc' = "lockcheck"
    /\ username' = u
    /\ UNCHANGED <<compVars, envVars, exit_code, invocations, logVars, loopVars,
                   liveVars, pipeVars, histVars, unitVars>>

NextLockCheck ==
    \/ pc = "start" /\ NextLogger
    \/ \E u \in LoggerUsers : ReachLockoutCheck(u)
    \/ CheckLocked

SpecLockCheck == InitLogger /\ [][NextLockCheck]_vars

\* ------------------------------------------ _process_single_frame on its own
\* a frame arrives at a worker: the faces the detector and the encoder give
\* for it, and whether the detect_faces round trip works
TakeFrame(up, faces) ==
    /\ pf_up' = up
    /\ pf_faces' = faces
    /\ pf_result' = NoResult
    /\ pf_called' = FALSE
    /\ pf_gated' = "none"
    /\ UNCHANGED <<compVars, envVars, pc, exit_code, username, invocations, logVars,
                   loopVars, liveVars, pipeVars, histVars, fail_times,
                   since_success, locked_ret>>

\* _process_single_frame(frame_data) (lines 188-218)
ProcessFrame ==
    /\ ~pf_called
    /\ pf_called' = TRUE
    /\ pf_result' = ProcessSingleFrame(pf_up, pf_faces)
    /\ UNCHANGED <<compVars, envVars, pc, exit_code, username, invocations, logVars,
                   loopVars, liveVars, pipeVars, histVars, pf_up, pf_faces,
                   pf_gated, fail_times, since_success, locked_ret>>

\* main takes the result and tests the match (lines 574-583)
MatchTest ==
    /\ pf_called
    /\ pf_result # NoResult
    /\ pf_gated = "none"
    /\ pf_gated' = IF Matching(pf_result.match_certainty) THEN "yes" ELSE "no"
    /\ UNCHANGED <<compVars, envVars, pc, exit_code, username, invocations, logVars,
                   loopVars, liveVars, pipeVars, histVars, pf_up, pf_faces,
                   pf_result, pf_called, fail_times, since_success,
                   locked_ret>>

NextFrame ==
    \/ \E up \in BOOLEAN, faces \in FaceLists : TakeFrame(up, faces)
    \/ ProcessFrame
    \/ MatchTest

SpecFrame == InitLogger /\ [][NextFrame]_vars

\* ------------------------------------ one AdaptiveFrameProcessor on its own
\* adapt_parameters(processing_time) (lines 80-111)
AdaptParameters(processing_time) ==
    /\ Len(processing_times) < MaxAdapt
    /\ LET times == LastN(Append(processing_times, processing_time),
                          processing_times_maxlen)
       IN  /\ processing_times' = times
           /\ IF Len(times) < adapt_min_samples
              THEN UNCHANGED <<current_skip_rate, current_resolution_scale>>
              ELSE /\ current_skip_rate' =
                          AdaptSkipRate(current_skip_rate, times)
                   /\ current_resolution_scale' =
                          AdaptScale(current_skip_rate,
                                     current_resolution_scale, times)
    /\ UNCHANGED <<envVars, pc, exit_code, username, invocations, logVars,
                   loopVars, liveVars, pipeVars, histVars, unitVars,
                   fileVars, daemonVars, extVars>>

NextAdapt == \E t \in ProcTimes : AdaptParameters(t)

SpecAdapt == InitLogger /\ [][NextAdapt]_vars

\* ------------------------------------------- the Model Service on its own
nonDaemonVars ==
    <<now, daemon_up, liveness_check, pc, exit_code, username, invocations,
      logVars, loopVars, liveVars, pipeVars, histVars, unitVars, adaptVars,
      extVars>>

AllIdle == \A t \in Threads : handler[t].pc = "idle"

\* run_daemon installs the signal handlers and enters its try block
\* (lines 321-327)
RunDaemon ==
    /\ svc.pc = "constructed"
    /\ svc' = [svc EXCEPT !.pc = "preload"]
    /\ UNCHANGED <<nonDaemonVars, user_model_exists, fileVars,
                   encodings_cache, cache_hits, cache_misses, lock_holder,
                   handler, accepted, served, invalidated, replied>>

\* preload_models (lines 63-104); sys.exit(1) passes run_daemon's except
\* clauses, cleanup runs and the process ends with code 1
PreloadModels(outcome) ==
    /\ svc.pc = "preload"
    /\ svc' = PreloadModelsResult(svc, outcome)
    /\ UNCHANGED <<nonDaemonVars, user_model_exists, fileVars,
                   encodings_cache, cache_hits, cache_misses, lock_holder,
                   handler, accepted, served, invalidated, replied>>

\* start_server up to the accept loop: bind and listen (lines 204-214); when
\* bind raises, run_daemon prints, cleans up and returns (lines 334-339)
StartServer(ok) ==
    /\ svc.pc = "start_server"
    /\ svc' = IF ok THEN [svc EXCEPT !.pc = "serving"]
              ELSE [svc EXCEPT !.pc = "exited", !.exit_code = 0]
    /\ UNCHANGED <<nonDaemonVars, user_model_exists, fileVars,
                   encodings_cache, cache_hits, cache_misses, lock_holder,
                   handler, accepted, served, invalidated, replied>>

\* SIGTERM or SIGINT: signal_handler cleans up and exits with 0
\* (lines 314-318); the handler threads are daemon threads and end with it
SignalHandler ==
    /\ svc.pc \in {"preload", "start_server", "serving"}
    /\ svc' = [svc EXCEPT !.pc = "exited", !.exit_code = 0]
    /\ handler' = [t \in Threads |-> IdleHandler]
    /\ lock_holder' = NoThread
    /\ UNCHANGED <<nonDaemonVars, user_model_exists, fileVars,
                   encodings_cache, cache_hits, cache_misses,
                   accepted, served, invalidated, replied>>

Startup ==
    \/ RunDaemon
    \/ \E outcome \in PreloadOutcomes : PreloadModels(outcome)
    \/ \E ok \in BOOLEAN : StartServer(ok)

\* start_server accepts a connection and starts handle_client in thread t
\* (lines 216-223); handle_client reads the request (lines 233-240)
Accept(t, type, u) ==
    /\ svc.pc = "serving"
    /\ handler[t].pc = "idle"
    /\ accepted < MaxRequests
    /\ accepted' = accepted + 1
    /\ handler' = [handler EXCEPT ![t] =
                       [pc |-> FirstPc(type), type |-> type, user |-> u,
                        hits0 |-> cache_hits, misses0 |-> cache_misses]]
    /\ UNCHANGED <<nonDaemonVars, user_model_exists, fileVars, svc, replied,
                   encodings_cache, cache_hits, cache_misses, lock_holder,
                   served, invalidated>>

\* get_encodings: check_cache_validity up to its verdict (lines 149-165)
CheckValidity(t) ==
    /\ handler[t].pc = "check"
    /\ LET v == CheckCacheValidity(encodings_cache, user_model_exists,
                                   file_mtime, handler[t].user)
       IN  handler' = [handler EXCEPT ![t].pc =
                          CASE v = "valid" -> "respond"
                            [] v = "stale" -> "check_inval"
                            [] OTHER -> "load"]
    /\ UNCHANGED <<nonDaemonVars, user_model_exists, fileVars, svc, replied,
                   encodings_cache, cache_hits, cache_misses, lock_holder,
                   accepted, served, invalidated>>

\* check_cache_validity found the file newer: invalidate_user_cache takes
\* the lock, drops the entry and releases the lock (lines 160-162)
CheckInvalidate(t) ==
    /\ handler[t].pc = "check_inval"
    /\ lock_holder = NoThread
    /\ encodings_cache' =
           InvalidateUserCache(encodings_cache, handler[t].user)
    /\ handler' = [handler EXCEPT ![t].pc = "load"]
    /\ UNCHANGED <<nonDaemonVars, user_model_exists, fileVars, svc, replied,
                   cache_hits, cache_misses, lock_holder,
                   accepted, served, invalidated>>

\* load_user_encodings: `with self.lock` is entered (line 108)
LoadAcquire(t) ==
    /\ handler[t].pc = "load"
    /\ lock_holder = NoThread
    /\ lock_holder' = t
    /\ handler' = [handler EXCEPT ![t].pc = "loading"]
    /\ UNCHANGED <<nonDaemonVars, user_model_exists, fileVars, svc, replied,
                   encodings_cache, cache_hits, cache_misses,
                   accepted, served, invalidated>>

\* load_user_encodings: the body under the lock (lines 109-140)
LoadUserEncodings(t) ==
    /\ handler[t].pc = "loading"
    /\ LET u == handler[t].user
       IN  /\ encodings_cache' =
                  LoadCache(encodings_cache, user_model_exists, file_mtime,
                            file_entries, u)
           /\ cache_hits' = cache_hits + LoadHits(encodings_cache, u)
           /\ cache_misses' = cache_misses
                  + LoadMisses(encodings_cache, user_model_exists, u)
    /\ lock_holder' = NoThread
    /\ handler' = [handler EXCEPT ![t].pc = "respond"]
    /\ UNCHANGED <<nonDaemonVars, user_model_exists, fileVars, svc, replied,
                   accepted, served, invalidated>>

\* get_encodings: `return self.encodings_cache.get(username)` (line 283) and
\* the response goes to the client (lines 245-248)
Respond(t) ==
    /\ handler[t].pc = "respond"
    /\ LET u == handler[t].user
       IN  /\ served' = [n |-> served.n + 1, user |-> u,
                         resp |-> encodings_cache[u],
                         hits |-> cache_hits - handler[t].hits0,
                         misses |-> cache_misses - handler[t].misses0,
                         after_invalidate |-> invalidated[u],
                         f_exists |-> user_model_exists[u],
                         f_mtime |-> file_mtime[u],
                         f_entries |-> file_entries[u]]
           /\ invalidated' = [invalidated EXCEPT ![u] = FALSE]
    /\ handler' = [handler EXCEPT ![t] = IdleHandler]
    /\ UNCHANGED <<nonDaemonVars, user_model_exists, fileVars, svc, replied,
                   encodings_cache, cache_hits, cache_misses, lock_holder,
                   accepted>>

\* invalidate_cache: invalidate_user_cache under the lock, then the answer
\* {'status': 'success'} (lines 294-297)
Invalidate(t) ==
    /\ handler[t].pc = "invalidate"
    /\ lock_holder = NoThread
    /\ encodings_cache' =
           InvalidateUserCache(encodings_cache, handler[t].user)
    /\ invalidated' = [invalidated EXCEPT ![handler[t].user] = TRUE]
    /\ handler' = [handler EXCEPT ![t] = IdleHandler]
    /\ UNCHANGED <<nonDaemonVars, user_model_exists, fileVars, svc, replied,
                   cache_hits, cache_misses, lock_holder, accepted, served>>

\* detect_faces or get_face_encoding: the model call returns or raises, the
\* exception is caught inside the method (lines 167-202)
ModelCallReturn(t, raises) ==
    /\ handler[t].pc = "model_call"
    /\ replied' = [type |-> handler[t].type, raised |-> raises,
                   resp |-> ModelCallAnswer(handler[t].type, raises)]
    /\ handler' = [handler EXCEPT ![t] = IdleHandler]
    /\ UNCHANGED <<nonDaemonVars, user_model_exists, fileVars, svc,
                   encodings_cache, cache_hits, cache_misses, lock_holder,
                   accepted, served, invalidated>>

\* a request type process_request has no branch for: the final else answers
\* {'error': 'Unknown request type'} (lines 305-306)
ReplyUnknown(t) ==
    /\ handler[t].pc = "unknown"
    /\ replied' = [type |-> handler[t].type, raised |-> FALSE,
                   resp |-> "error"]
    /\ handler' = [handler EXCEPT ![t] = IdleHandler]
    /\ UNCHANGED <<nonDaemonVars, user_model_exists, fileVars, svc,
                   encodings_cache, cache_hits, cache_misses, lock_holder,
                   accepted, served, invalidated>>

HandlerStep(t) ==
    \/ \E type \in RequestTypes, u \in Users : Accept(t, type, u)
    \/ CheckValidity(t)
    \/ CheckInvalidate(t)
    \/ LoadAcquire(t)
    \/ LoadUserEncodings(t)
    \/ Respond(t)
    \/ Invalidate(t)
    \/ \E raises \in BOOLEAN : ModelCallReturn(t, raises)
    \/ ReplyUnknown(t)

\* the enrollment tool writes the user's file; mtime is what the file system
\* reports afterwards (a restored or copied file can carry an older time)
WriteEnrollment(u, entries, mtime) ==
    /\ AllIdle
    /\ user_model_exists' = [user_model_exists EXCEPT ![u] = TRUE]
    /\ file_entries' = [file_entries EXCEPT ![u] = entries]
    /\ file_mtime' = [file_mtime EXCEPT ![u] = mtime]
    /\ UNCHANGED <<nonDaemonVars, daemonVars>>

\* the enrollment file is removed
DeleteEnrollment(u) ==
    /\ AllIdle
    /\ user_model_exists[u]
    /\ user_model_exists' = [user_model_exists EXCEPT ![u] = FALSE]
    /\ file_entries' = [file_entries EXCEPT ![u] = <<>>]
    /\ file_mtime' = [file_mtime EXCEPT ![u] = 0]
    /\ UNCHANGED <<nonDaemonVars, daemonVars>>

\* requests handled one after another, the files changing in between (the
\* file of alice in every way, the file of bob only coming and going)
NextDaemon ==
    \/ Startup
    \/ HandlerStep(1)
    \/ \E e \in EntryLists, mt \in 1..MaxMtime :
           WriteEnrollment("alice", e, mt)
    \/ WriteEnrollment("bob", <<1>>, 1)
    \/ \E u \in Users : DeleteEnrollment(u)

SpecDaemon == InitLogger /\ [][NextDaemon]_vars

\* connections handled concurrently, each in its own thread
NextHandlers ==
    \/ Startup
    \/ SignalHandler
    \/ \E t \in Threads : HandlerStep(t)
    \/ \E mt \in 1..MaxMtime : WriteEnrollment("alice", <<1>>, mt)

SpecHandlers == InitLogger /\ [][NextHandlers]_vars

\* ------------------------------------- one receiver of frames on its own
coreVars ==
    <<envVars, pc, exit_code, username, invocations, logVars, loopVars,
      liveVars, pipeVars, histVars, unitVars, adaptVars, fileVars,
      daemonVars>>

\* a connection is made (lines 217-223, 352-354) and the peer sends a frame
\* holding payload, of which `cut` bytes get through before the peer closes
Connect(role, payload, trailing, cut) ==
    /\ wire.pc = "closed"
    /\ wire.conns < MaxConns
    /\ wire' = [NoWire EXCEPT
                   !.role = role, !.pc = "prefix", !.payload = payload,
                   !.stream = WireStream(payload, trailing, cut),
                   !.sent = Len(WireStream(payload, trailing, cut)),
                   !.eof = (cut # NoCut), !.n = 4,
                   !.requests_served = wire.requests_served,
                   !.conns = wire.conns + 1]
    /\ UNCHANGED <<coreVars, sess, pvp, stats, qa, cap, blk>>

\* recvall: sock.recv(n - len(data)) returns k bytes (lines 268-272)
Recv(k) ==
    /\ wire.pc \in {"prefix", "payload"}
    /\ k \in 1..Min(RecvWant(wire.n, wire.data), Len(wire.stream))
    /\ LET data == wire.data \o SubSeq(wire.stream, 1, k)
           w == [wire EXCEPT
                    !.data = data, !.consumed = @ + k,
                    !.stream = SubSeq(@, k + 1, Len(@))]
       IN  wire' = IF Len(data) < wire.n THEN w
                   ELSE AfterRecvAll(w, Bytes(data))
    /\ UNCHANGED <<coreVars, sess, pvp, stats, qa, cap, blk>>

\* recvall: sock.recv returns nothing, the peer has closed (lines 270-271)
RecvEof ==
    /\ wire.pc \in {"prefix", "payload"}
    /\ wire.stream = <<>>
    /\ wire.eof
    /\ wire' = AfterRecvAll(wire, None)
    /\ UNCHANGED <<coreVars, sess, pvp, stats, qa, cap, blk>>

NextWire ==
    \/ \E role \in {"server", "client"}, payload \in Payloads,
          trailing \in Trailing, cut \in {NoCut} \cup 0..(5 + MaxPayload) :
           Connect(role, payload, trailing, cut)
    \/ \E k \in 1..(MaxPayload + 4) : Recv(k)
    \/ RecvEof

SpecWire == InitLogger /\ [][NextWire]_vars

\* ------------------------------------------ one liveness detector on its own
\* create_liveness_detector (lines 460-466)
CreateLivenessDetector(advanced) ==
    /\ sess.kind = "-"
    /\ sess' = [sess EXCEPT !.kind = IF advanced THEN "advanced"
                                     ELSE "simple"]
    /\ UNCHANGED <<coreVars, wire, pvp, stats, qa, cap, blk>>

\* the detector after a process call that returned ret: the session start,
\* the flags, and whether the call came after the timeout max had elapsed
\* and after an earlier accept of the session
AfterFrame(s, start, confirmed, ret, max) ==
    [s EXCEPT !.start = start, !.confirmed = confirmed, !.called = TRUE,
              !.ret = ret, !.late = (s.clock - start > max),
              !.prior_accept = (s.called /\ (s.ret \/ s.prior_accept))]

\* SimpleLivenessDetector.process_frame_simple (lines 390-443); evidence:
\* the methods this frame makes the detector set its flag for
ProcessFrameSimple(evidence) ==
    /\ sess.kind = "simple"
    /\ LET start == IF sess.start = NoTime THEN sess.clock ELSE sess.start
           confirmed == sess.confirmed \cup evidence
       IN  sess' = AfterFrame(sess, start, confirmed,
                              SimpleDecision(sess.clock - start, confirmed),
                              simple_max_detection_time)
    /\ UNCHANGED <<coreVars, wire, pvp, stats, qa, cap, blk>>

\* AdvancedLivenessDetector.process_frame (lines 279-299)
ProcessFrameAdvanced(evidence) ==
    /\ sess.kind = "advanced"
    /\ LET start == IF sess.start = NoTime THEN sess.clock ELSE sess.start
           elapsed == sess.clock - start
       IN  sess' = AfterFrame(sess, start,
                      AdvancedConfirmed(elapsed, sess.confirmed, evidence),
                      AdvancedDecision(elapsed, sess.confirmed, evidence),
                      advanced_max_detection_time)
    /\ UNCHANGED <<coreVars, wire, pvp, stats, qa, cap, blk>>

\* reset() of either detector (lines 60-78, 387-393)
ResetDetector ==
    /\ sess.kind # "-"
    /\ sess' = [NoSession EXCEPT !.kind = sess.kind, !.clock = sess.clock,
                                 !.start = sess.clock]
    /\ UNCHANGED <<coreVars, wire, pvp, stats, qa, cap, blk>>

\* half a second passes
SessionTick ==
    /\ sess.clock < MaxSessClock
    /\ sess' = [sess EXCEPT !.clock = @ + 1]
    /\ UNCHANGED <<coreVars, wire, pvp, stats, qa, cap, blk>>

NextSession ==
    \/ \E advanced \in BOOLEAN : CreateLivenessDetector(advanced)
    \/ \E evidence \in SUBSET SimpleMethods : ProcessFrameSimple(evidence)
    \/ \E evidence \in SUBSET Methods : ProcessFrameAdvanced(evidence)
    \/ ResetDetector
    \/ SessionTick

SpecSession == InitLogger /\ [][NextSession]_vars

\* --------------------------------------------- one frame pipeline on its own
\* OptimizedFrameProcessor.__init__ (compare_optimized.py lines 153-169) or
\* ParallelVideoProcessor.__init__ and start_processing (lines 137-167): the
\* worker threads start
CreatePipeline(kind) ==
    /\ pvp.kind = "-"
    /\ pvp' = [pvp EXCEPT !.kind = kind,
                          !.wpc = [w \in Workers |-> "test"]]
    /\ UNCHANGED <<coreVars, wire, sess, stats, qa, cap, blk>>

\* add_frame (compare_optimized.py lines 220-232; optimized_video_processor.py
\* lines 236-247), called by the capture loop until it stops the pipeline
AddFrame ==
    /\ pvp.kind # "-"
    /\ ~pvp.stop_processing
    /\ pvp.frame_counter < MaxPipeFrames
    /\ LET id == pvp.frame_counter + 1
           skipped == id % SkipInterval(pvp.kind) # 0
           q == IF skipped THEN pvp.input_queue
                ELSE QueuePut(pvp.input_queue, id, MaxSize(pvp.kind))
           ok == ~skipped /\ q # pvp.input_queue
       IN  pvp' = [pvp EXCEPT
                      !.frame_counter = id, !.input_queue = q,
                      !.add_ret = ok,
                      !.accepted = IF ok THEN @ \cup {id} ELSE @]
    /\ UNCHANGED <<coreVars, wire, sess, stats, qa, cap, blk>>

\* a worker tests `while not self.stop_processing.is_set()` (lines 171-173;
\* 169-171)
WorkerTest(w) ==
    /\ pvp.wpc[w] = "test"
    /\ pvp' = IF WorkerLoopRuns(pvp.stop_processing)
              THEN [pvp EXCEPT !.wpc[w] = "get"]
              ELSE [pvp EXCEPT !.wpc[w] = "exited", !.exit_by[w] = "flag"]
    /\ UNCHANGED <<coreVars, wire, sess, stats, qa, cap, blk>>

\* a worker's get(timeout=1.0) returns or times out; None breaks the loop, a
\* frame is processed (lines 174-186; 172-186)
WorkerGet(w) ==
    /\ pvp.wpc[w] = "get"
    /\ pvp' = IF pvp.input_queue = <<>>
              THEN [pvp EXCEPT !.wpc[w] = "test"]
              ELSE IF Head(pvp.input_queue) = Sentinel
              THEN [pvp EXCEPT !.input_queue = Tail(@),
                               !.wpc[w] = "exited",
                               !.exit_by[w] = "sentinel"]
              ELSE [pvp EXCEPT !.input_queue = Tail(@),
                               !.processed = @ \cup {Head(pvp.input_queue)},
                               !.wpc[w] = "test"]
    /\ UNCHANGED <<coreVars, wire, sess, stats, qa, cap, blk>>

\* stop (compare_optimized.py lines 241-250; optimized_video_processor.py
\* lines 256-265)
StopPipeline ==
    /\ pvp.kind # "-"
    /\ pvp.stops < MaxStops
    /\ pvp' = [pvp EXCEPT
                  !.stop_processing = TRUE, !.stops = @ + 1,
                  !.input_queue =
                      StopQueue(@, Cardinality(Workers), MaxSize(pvp.kind))]
    /\ UNCHANGED <<coreVars, wire, sess, stats, qa, cap, blk>>

NextPipeline ==
    \/ \E kind \in {"optimized", "parallel"} : CreatePipeline(kind)
    \/ AddFrame
    \/ \E w \in Workers : WorkerTest(w) \/ WorkerGet(w)
    \/ StopPipeline

SpecPipeline == InitLogger /\ [][NextPipeline]_vars

\* the same with every worker thread scheduled again and again
SpecPipelineLive ==
    /\ InitLogger
    /\ [][NextPipeline]_vars
    /\ \A w \in Workers : WF_vars(WorkerTest(w) \/ WorkerGet(w))

\* ------------------------------- the statistics update on its own
\* a handler thread has sent its response (lines 245-248)
SendResponse(t) ==
    /\ stats.spc[t] = "idle"
    /\ stats.responded < MaxResponses
    /\ stats' = [stats EXCEPT !.responded = @ + 1, !.spc[t] = "read"]
    /\ UNCHANGED <<coreVars, wire, sess, pvp, qa, cap, blk>>

\* self.stats['requests_served'] += 1 (line 252) without a lock: the
\* thread reads the counter ...
StatsRead(t) ==
    /\ stats.spc[t] = "read"
    /\ stats' = [stats EXCEPT !.tmp[t] = stats.requests_served,
                              !.spc[t] = "write"]
    /\ UNCHANGED <<coreVars, wire, sess, pvp, qa, cap, blk>>

\* ... and stores the sum; the handler ends (lines 252-263)
StatsWrite(t) ==
    /\ stats.spc[t] = "write"
    /\ stats' = [stats EXCEPT !.requests_served = stats.tmp[t] + 1,
                              !.tmp[t] = 0, !.spc[t] = "idle"]
    /\ UNCHANGED <<coreVars, wire, sess, pvp, qa, cap, blk>>

NextStats ==
    \E t \in Threads : SendResponse(t) \/ StatsRead(t) \/ StatsWrite(t)

SpecStats == InitLogger /\ [][NextStats]_vars

\* ------------------------------------- one SmartFrameAnalyzer on its own
\* analyze_frame_quality for a frame whose digest is not in the cache
\* (lines 296-362): the result is computed and cached
AnalyzeNew(c) ==
    /\ qa.digests < MaxDigests
    /\ LET key == qa.digests + 1
           cache == CacheResult(qa.cache, key)
           full == Len(qa.cache) >= cache_max_size
       IN  qa' = [cache |-> cache,
                  recency |-> Touch(IF full
                                    THEN LET Kept(k) == k # Head(qa.cache)
                                         IN  SelectSeq(qa.recency, Kept)
                                    ELSE qa.recency, key),
                  digests |-> key,
                  evicted |-> IF full THEN Head(qa.cache) ELSE 0,
                  lru |-> IF full THEN Head(qa.recency) ELSE 0,
                  computed |-> TRUE, checks |-> c,
                  is_good_quality |-> IsGoodQuality(c)]
    /\ UNCHANGED <<coreVars, wire, sess, pvp, stats, cap, blk>>

\* analyze_frame_quality for a frame whose digest is in the cache
\* (lines 299-302): the stored result is returned, nothing else happens
AnalyzeCached(key) ==
    /\ qa.cache # <<>>
    /\ key \in {Head(qa.cache), qa.cache[Len(qa.cache)]}
    /\ qa.recency[Len(qa.recency)] # key
    /\ qa' = [qa EXCEPT !.recency = Touch(@, key), !.evicted = 0,
                        !.lru = 0, !.computed = FALSE]
    /\ UNCHANGED <<coreVars, wire, sess, pvp, stats, cap, blk>>

NextAnalyzer ==
    \/ \E c \in Checks : AnalyzeNew(c)
    \/ \E key \in 1..MaxDigests : AnalyzeCached(key)

SpecAnalyzer == InitLogger /\ [][NextAnalyzer]_vars

\* ---------------------------------- one OptimizedVideoCapture on its own
\* OptimizedVideoCapture(config) (lines 411-435)
CreateCapture(quality, adaptive) ==
    /\ ~cap.created
    /\ cap' = [cap EXCEPT !.created = TRUE,
                          !.enable_quality_filtering = quality,
                          !.enable_adaptive_processing = adaptive]
    /\ UNCHANGED <<coreVars, wire, sess, pvp, stats, qa, blk>>

\* read_optimized_frame() (lines 438-492): the camera read succeeds or
\* raises, the frame has checks c, the call takes capture_time
ReadOptimizedFrame(ok, c, capture_time) ==
    /\ cap.created
    /\ cap.frame_counter < MaxCapFrames
    /\ IF ~ok
       THEN cap' = [cap EXCEPT !.read_ok = FALSE, !.ret = "none"]
       ELSE LET counted ==
                    [cap EXCEPT !.read_ok = TRUE, !.frame_counter = @ + 1,
                                !.capture_stats.total_frames_captured = @ + 1]
            IN  cap' =
                    IF /\ cap.enable_adaptive_processing
                       /\ ~ShouldProcessFrame(counted.frame_counter,
                                              cap.current_skip_rate)
                    THEN SkipAdaptive(counted)
                    ELSE IF cap.enable_quality_filtering /\ ~IsGoodQuality(c)
                    THEN SkipQuality(counted)
                    ELSE ProcessCaptured(counted, capture_time)
    /\ UNCHANGED <<coreVars, wire, sess, pvp, stats, qa, blk>>

NextCapture ==
    \/ \E quality \in BOOLEAN, adaptive \in BOOLEAN :
           CreateCapture(quality, adaptive)
    \/ \E ok \in BOOLEAN, c \in Checks, t \in ProcTimes :
           ReadOptimizedFrame(ok, c, t)

SpecCapture == InitLogger /\ [][NextCapture]_vars

\* ------------------- the blink detection of one detector on its own
\* detect_blink_advanced(landmarks) for landmarks with eye aspect ratio ear
\* (lines 114-146)
DetectBlinkAdvanced(ear) ==
    /\ blk.samples < MaxSamples
    /\ LET total == TotalBlinksAfter(blk.blink_counter, blk.total_blinks, ear)
           counted == total # blk.total_blinks
       IN  blk' = [blink_counter |->
                       BlinkCounterAfter(blk.blink_counter, blk.total_blinks,
                                         ear),
                   total_blinks |-> total,
                   blink_confirmed |->
                       blk.blink_confirmed \/ (counted /\ total >= 1),
                   ret |-> counted /\ total >= 1,
                   samples |-> blk.samples + 1,
                   run |-> IF ear < eye_ar_threshold THEN blk.run + 1 ELSE 0,
                   episodes |->
                       IF ear >= eye_ar_threshold
                          /\ blk.run >= eye_ar_consecutive_frames
                       THEN blk.episodes + 1
                       ELSE blk.episodes]
    /\ UNCHANGED <<coreVars, wire, sess, pvp, stats, qa, cap>>

NextBlinks == \E ear \in EarSamples : DetectBlinkAdvanced(ear)

SpecBlinks == InitLogger /\ [][NextBlinks]_vars

\* ================================================================= claims
HasRecord(kind) == \E r \in BagToSet(journal) : r.kind = kind
HasError(error) == \E r \in BagToSet(journal) : r.error = error

\* C1: with the liveness check enabled, main exits with code 0 only after
\* the liveness detector has returned a positive result in that run.
C1_ExitZeroOnlyAfterLive ==
    (pc = "done" /\ exit_code = 0 /\ liveness_check) => liveness_confirmed

\* C2: a run of main started less than 300 s after the fifth of five
\* journaled failures of the same user, all within 300 s, ends with exit
\* code 15 at the lockout check (or with 1 before it when the service is
\* down) and never reaches the enrollment request or the camera.
C2_SixthRunLocked ==
    streak.due => \/ pc \in {"ping", "lockcheck"}
                  \/ pc = "done" /\ exit_code \in {1, 15}

\* C3: is_user_locked returns true only if the user's five latest failures
\* lie in one 300 s window, and when they do it returns true exactly while
\* less than 300 s have passed since the last of them.  (The window is read
\* as closed where the claim requires it and as open where the claim
\* promises something for it, so that either reading implies this.)
C3_LockedOnlyForWindow ==
    locked_ret.called =>
        LET h == fail_times[locked_ret.user]
            five == Len(h) = max_attempts
            span == h[Len(h)] - h[1]
        IN  /\ locked_ret.value => five /\ span <= lockout_duration
            /\ (five /\ span < lockout_duration) =>
                   (locked_ret.value <=>
                        locked_ret.at - h[Len(h)] < lockout_duration)

\* C4: a logged success clears the failure counter: the counter never holds
\* more than the failures logged after the last success, and a user is never
\* reported locked with fewer than five failures after the last success.
C4_SuccessClearsCounter ==
    /\ \A u \in Users : FailCount(u) <= since_success[u]
    /\ (locked_ret.called /\ locked_ret.value) =>
           since_success[locked_ret.user] >= max_attempts

\* C5: a run that ends with exit code 10 or 1 leaves the user's failure
\* counter as it was at the start of the run (0 in a new process), and a run
\* that ends with any other failure code has incremented it by exactly one.
C5_CounterByOutcome ==
    (pc = "done" /\ username # NoUser) =>
        /\ exit_code \in {1, 10} => FailCount(username) = 0
        /\ exit_code \in {11, 13, 14, 15, 16} => FailCount(username) = 1

\* C6: when main exits with code 1 because the service was not reachable,
\* the run has written exactly one journal record, of kind
\* SERVICE_UNAVAILABLE.
C6_ServiceUnavailableJournaled ==
    (pc = "done" /\ exit_code = 1) =>
        /\ BagCardinality(journal) = 1
        /\ HasRecord("SERVICE_UNAVAILABLE")

\* C7: when the get_encodings round trip breaks for a user whose enrollment
\* file exists, main neither exits with code 10 nor journals no_face_model.
C7_TransportFailureIsNotNoEnrollment ==
    (pc = "done" /\ enc_transport_failed /\ user_model_exists[username]) =>
        /\ exit_code # 10
        /\ ~HasError("no_face_model")

\* C8: once the passive spoof score of the matching frames exceeds 0.5 the
\* run never ends with exit code 0; it ends with exit code 16 and a
\* SPOOF_DETECTED journal record.
C8_SpoofEndsWith16 ==
    spoof_score > spoof_limit =>
        /\ exit_code # 0
        /\ pc = "done" => exit_code = 16 /\ HasRecord("SPOOF_DETECTED")

\* C9: a result is treated as matching (handed on to the liveness gate) if
\* and only if its distance is below the certainty threshold, 0 included.
C9_AcceptingIffBelowThreshold ==
    pf_gated # "none" =>
        (pf_gated = "yes" <=> pf_result.match_certainty < video_certainty)

\* C10: the result reported for a frame carries the smallest nearest
\* distance over all the faces of the frame that got an encoding.
C10_ResultIsNearestFace ==
    (pf_called /\ pf_result # NoResult) =>
        pf_result.match_certainty = FrameBest(pf_faces)

\* C11: an attempt that ended on the deadline has journaled one failed
\* attempt (error timeout, the failure counter raised once), and its code is
\* 13 exactly when no counted non-black frame passed the darkness test (none
\* was handed to add_frame), and 11 otherwise.
C11_TimeoutCodeByDarkness ==
    (pc = "done" /\ exit_code \in {11, 13}) =>
        /\ HasError("timeout")
        /\ BagCardinality(journal) = 1
        /\ FailCount(username) = 1
        /\ exit_code = 13 <=> frame_counter = 0
        /\ exit_code = 13 <=> dark_tries = valid_frames

\* a timeout of a run that saw black frames and dark frames only
C11_Witness ==
    /\ pc = "done" /\ exit_code = 13
    /\ black_tries > 0 /\ dark_tries > 0

\* C12: under fair scheduling every started attempt terminates: whatever the
\* camera reads, the workers and the Model Service do (also when every read
\* raises or every matching observation fails the liveness check), main
\* eventually exits, and with one of the codes 0, 1, 10, ..., 16.
ExitCodes == {0, 1, 10, 11, 12, 13, 14, 15, 16}

C12_AttemptTerminates ==
    [](pc # "start" => <>(pc = "done" /\ exit_code \in ExitCodes))

\* a run that ended on the deadline after a read raised and after a matching
\* observation failed the liveness check
C12_Witness ==
    /\ pc = "done" /\ exit_code = 11
    /\ frames > valid_frames + black_tries + 1
    /\ liveness_check /\ ~liveness_confirmed /\ head_positions # <<>>

C14_AdaptiveRanges ==
    /\ current_skip_rate \in 1..max_skip_rate
    /\ current_resolution_scale >= min_resolution_scale
    /\ current_resolution_scale <= full_resolution_scale

\* C15: with the requests handled one after another, once a request is done
\* cache_hits + cache_misses equals the number of get_encodings requests
\* served so far.
C15_HitsPlusMissesCountRequests ==
    AllIdle => cache_hits + cache_misses = served.n

\* C16: a get_encodings response for a user whose enrollment file exists
\* carries the entry as loaded from the file as it is at that time: its
\* last_modified is the file's mtime, whether the mtime moved forward or
\* backward since the entry was cached.
C16_ResponseIsCurrentFile ==
    (served.n > 0 /\ served.f_exists) =>
        /\ served.resp.present
        /\ served.resp.last_modified = served.f_mtime

\* C17: get_encodings answers null whenever the user has no enrollment file
\* at request time, also when the file was deleted after an earlier request
\* had cached the entry.
C17_NullWithoutEnrollment ==
    (served.n > 0 /\ ~served.f_exists) => ~served.resp.present

\* C18: in every non-null get_encodings response the rows of the vectors,
\* the length of the meta list and the sum of len(entry.data) over the
\* entries of the enrollment file it was loaded from are the same number.
C18_RowsEqualMetaEqualSum ==
    (served.n > 0 /\ served.resp.present /\ served.f_exists
            /\ served.resp.last_modified = served.f_mtime) =>
        /\ served.resp.rows = served.resp.models
        /\ served.resp.rows = SumSeq(served.f_entries)

C20_ModelCallsSerialized ==
    \A t1, t2 \in Threads :
        (handler[t1].pc = "model_call" /\ handler[t2].pc = "model_call") =>
            t1 = t2

\* C21: with connections handled concurrently, a get_encodings for a user
\* whose enrollment file exists never answers null, whatever invalidate or
\* get_encodings requests for the same user run at the same time (the cache
\* being read and written under the service lock only).
C21_ConcurrentGetNeverNull ==
    (served.n > 0 /\ served.f_exists) => served.resp.present


\* C22: when the model call of a detect_faces or get_face_encoding request
\* raises, the answer the client gets is a typed error object.
C22_RaisedModelCallAnswersError ==
    replied.raised => replied.resp = "error"

\* C23: a get_face_landmarks request, the one the Verifier sends for a
\* matching face, is never answered with the unknown-request error object.
C23_LandmarksNeverUnknown ==
    replied.type = "get_face_landmarks" => replied.resp # "error"


FrameLen == 4 + Len(wire.payload)

\* C25: however the transport splits the stream, the receiver never reads a
\* byte beyond the declared length, and once a whole frame has got through
\* it holds exactly the payload bytes sent, in order.
C25_FrameRoundTrip ==
    /\ wire.consumed <= FrameLen
    /\ (wire.pc = "closed" /\ ~wire.got.none) =>
           wire.got.bytes = wire.payload /\ wire.consumed = FrameLen
    /\ (wire.pc = "closed" /\ wire.conns > 0 /\ wire.sent >= FrameLen) =>
           ~wire.got.none

\* a payload of two bytes received with a byte of the next frame left unread
C25_Witness ==
    /\ wire.pc = "closed" /\ wire.got = Bytes(wire.payload)
    /\ Len(wire.payload) = 2 /\ wire.stream # <<>>

\* C26: a connection the peer closes before a complete frame has arrived
\* gets no response, is closed and is not counted in requests_served, and
\* send_request returns None on it; connections made afterwards are served
\* and counted as usual.
C26_IncompleteFrameDropped ==
    /\ [][(wire.pc # "closed" /\ wire'.pc = "closed") =>
             LET whole == wire.sent >= FrameLen /\ wire.payload # <<>>
             IN  /\ wire'.requests_served = wire.requests_served
                        + (IF whole /\ wire.role = "server" THEN 1 ELSE 0)
                 /\ wire'.responded = (whole /\ wire.role = "server")
                 /\ wire.role = "client" =>
                        wire'.returned = IF whole THEN "response" ELSE "None"
          ]_vars
    /\ [](wire.requests_served <= wire.conns)

\* a request served after a connection that was dropped half way
C26_Witness ==
    /\ wire.conns = 2 /\ wire.requests_served = 1
    /\ wire.pc = "closed" /\ wire.responded


\* C27: with the liveness check enabled, a run whose liveness detector has
\* been handed matching frames and has confirmed them exits with code 0 no
\* earlier than 1.5 s after the first of those frames, hence no earlier than
\* 1.5 s after the frame loop began (timings["fr"]).
C27_ExitZeroAfterMinimumTime ==
    (pc = "done" /\ exit_code = 0 /\ liveness_check /\ liveness_confirmed)
        => 2 * (now - fr) >= 3


\* C28: a frame handed to the detector after the total timeout of its
\* session has elapsed, in a session that has accepted no frame before, is
\* not accepted (the session has failed and stays failed until reset()).
C28_NoAcceptAfterTimeout ==
    (sess.called /\ sess.late /\ ~sess.prior_accept) => ~sess.ret


\* C29: add_frame on a full input queue returns False and leaves the queue
\* as it is, the frames queued earlier staying in place, and the input
\* queue never holds more than maxsize items.
C29_AddFrameNeverOverfills ==
    /\ [][(pvp'.frame_counter = pvp.frame_counter + 1
              /\ Len(pvp.input_queue) >= MaxSize(pvp.kind)) =>
             (pvp'.input_queue = pvp.input_queue /\ ~pvp'.add_ret)]_vars
    /\ [](Len(pvp.input_queue) <= MaxSize(pvp.kind))

\* a frame refused by a ParallelVideoProcessor whose queue holds ten frames
C29_Witness ==
    /\ pvp.kind = "parallel" /\ ~pvp.add_ret
    /\ pvp.frame_counter = input_queue_maxsize + 1
    /\ Len(pvp.input_queue) = input_queue_maxsize

\* C30: once stop has been called and every worker has exited, every frame
\* add_frame accepted has been dequeued and processed, and every worker
\* has left its loop by dequeuing a sentinel.
C30_WorkersDrainOnStop ==
    (\A w \in Workers : pvp.wpc[w] = "exited") =>
        /\ pvp.accepted \subseteq pvp.processed
        /\ \A w \in Workers : pvp.exit_by[w] = "sentinel"


\* every worker of a stopped pipeline exits in the end
WorkersExitAfterStop ==
    [](pvp.stop_processing => <>(\A w \in Workers : pvp.wpc[w] = "exited"))

\* a stop call on a pipeline that is stopped already
SecondStop == pvp.stop_processing /\ pvp'.stops = pvp.stops + 1

\* C31 as stated: after stop every worker exits in the end, full queue or
\* not, and a second stop changes nothing at all.
C31_StopEndsWorkersSecondStopNoChange ==
    /\ WorkersExitAfterStop
    /\ [][SecondStop => pvp' = [pvp EXCEPT !.stops = @ + 1]]_vars

\* C31, amended: after stop every worker exits in the end, full queue or
\* not; a second stop leaves the stop flag, the workers and the frames
\* accepted and processed as they are and at most appends further sentinels
\* to the input queue, within maxsize.
C31_StopEndsWorkersSecondStopSentinelsOnly ==
    /\ WorkersExitAfterStop
    /\ [][SecondStop =>
             /\ [pvp' EXCEPT !.input_queue = pvp.input_queue] =
                    [pvp EXCEPT !.stops = @ + 1]
             /\ Len(pvp'.input_queue) <= MaxSize(pvp.kind)
             /\ \A i \in 1..Len(pvp'.input_queue) :
                    IF i <= Len(pvp.input_queue)
                    THEN pvp'.input_queue[i] = pvp.input_queue[i]
                    ELSE pvp'.input_queue[i] = Sentinel]_vars

\* both workers gone after a stop that found the queue full of frames, and
\* a second stop made
C31_Witness ==
    /\ pvp.stops = 2 /\ \A w \in Workers : pvp.wpc[w] = "exited"
    /\ Len(pvp.input_queue) = MaxSize(pvp.kind)
    /\ \A i \in 1..Len(pvp.input_queue) : pvp.input_queue[i] # Sentinel


\* C32: with handlers running concurrently, once all of them have finished
\* requests_served equals the number of responses sent.
C32_NoLostIncrement ==
    (\A t \in Threads : stats.spc[t] = "idle") =>
        stats.requests_served = stats.responded


\* C33: an adapt_parameters call reduces the resolution scale only when the
\* skip rate is already 4, and reduces the skip rate only when the
\* resolution scale is already back at 1.0.
C33_AdaptiveOrder ==
    [][/\ current_resolution_scale' < current_resolution_scale =>
              current_skip_rate = max_skip_rate
       /\ current_skip_rate' < current_skip_rate =>
              current_resolution_scale = full_resolution_scale]_vars


\* C34: a frame whose quality is computed is marked good exactly when all
\* four checks hold.
C34_GoodIffAllChecks ==
    qa.computed =>
        (qa.is_good_quality <=>
             qa.checks.sharp /\ qa.checks.bright /\ qa.checks.contrast
                 /\ qa.checks.even)

\* C35: the cache never holds more than 100 entries, and the entry evicted
\* for a new digest is the least recently used one, a cache hit counting as
\* a use.
C35_CacheBoundedLRU ==
    /\ Len(qa.cache) <= cache_max_size
    /\ qa.evicted # 0 => qa.evicted = qa.lru


\* C36: an access to a user's lockout state (is_user_locked or a new
\* failure) more than 300 s after the user's last failure discards the stale
\* record, whatever its count: afterwards the user has no record, or one that
\* counts only the failure made by that access.
C36_StaleRecordDiscarded ==
    [][\A u \in LoggerUsers :
           LET stale == /\ failed_attempts[u].present
                        /\ now - failed_attempts[u].last_attempt
                               > lockout_duration
               checked == /\ calls' = calls + 1
                          /\ journal' = journal
                          /\ locked_ret'.user = u
               failed == since_success'[u] = since_success[u] + 1
           IN  (stale /\ (checked \/ failed)) =>
                   \/ ~failed_attempts'[u].present
                   \/ /\ failed
                      /\ failed_attempts'[u].count = 1
                      /\ failed_attempts'[u].last_attempt = now]_vars


\* C37: after any read_optimized_frame calls whose camera read succeeds,
\* total_frames_captured is the sum of frames_processed,
\* frames_skipped_quality and frames_skipped_adaptive, the last of which
\* equals the adaptive processor's frames_skipped; each such call adds one to
\* exactly one of the three terms.
C37_CaptureCountersAddUp ==
    /\ [](/\ cap.capture_stats.total_frames_captured =
                 cap.capture_stats.frames_processed
                 + cap.capture_stats.frames_skipped_quality
                 + cap.capture_stats.frames_skipped_adaptive
          /\ cap.capture_stats.frames_skipped_adaptive = cap.frames_skipped)
    /\ [][cap'.frame_counter = cap.frame_counter + 1 =>
              LET terms == {"frames_processed", "frames_skipped_quality",
                            "frames_skipped_adaptive"}
              IN  \E f \in terms :
                      /\ cap'.capture_stats[f] = cap.capture_stats[f] + 1
                      /\ \A g \in terms \ {f} :
                             cap'.capture_stats[g] = cap.capture_stats[g]]_vars

C37_Witness ==
    /\ cap.capture_stats.frames_processed > 0
    /\ cap.capture_stats.frames_skipped_quality > 0
    /\ cap.capture_stats.frames_skipped_adaptive > 0
    /\ cap.read_ok


\* C38: total_blinks is the number of completed blink episodes among the
\* samples seen, an episode being a run of at least 3 samples below 0.25
\* that a sample at or above 0.25 ends; samples after an episode that start
\* no new run below the threshold add nothing.
C38_TotalBlinksCountsEpisodes == blk.total_blinks = blk.episodes


\* C39: in a session of an AdvancedLivenessDetector without reset, the
\* confirmation flags never go from true to false, a process_frame call
\* that follows one that returned True returns True, and process_frame never
\* returns True before 2.0 s have elapsed since the session start.
C39_AdvancedDecisionMonotonic ==
    [][(sess.kind = "advanced" /\ sess'.called) =>
           /\ sess.confirmed \subseteq sess'.confirmed
           /\ (sess.called /\ sess.ret) => sess'.ret
           /\ (sess'.clock = sess.clock /\ sess'.ret) =>
                  sess'.clock - sess'.start >= advanced_min_confirmation_time
      ]_vars

C39_Witness ==
    /\ sess.kind = "advanced"
    /\ sess.called /\ sess.ret /\ sess.prior_accept
    /\ sess.late
    /\ Cardinality(sess.confirmed) = 1


\* C40: with the liveness check enabled, one matching observation handed to
\* LivenessDetector.is_live_face (the landmark request having a non-empty
\* answer) is never enough: the first one yields not-live, so liveness is
\* confirmed, and a run exits 0 with liveness confirmed, only after at least
\* two of them.
C40_OneObservationNeverEnough ==
    (liveness_check /\ Len(head_positions) <= 1) => ~liveness_confirmed

C40_Witness ==
    /\ pc = "done" /\ exit_code = 0
    /\ liveness_check /\ liveness_confirmed
    /\ Len(head_positions) >= 2

====
